---------------------------- MODULE Spec2Model ----------------------------
(***************************************************************************)
(* blender2ogre, io_ogre/ogre/material.py: the .material chunker and       *)
(* per-chunk parser, the material registry, the material generator, the    *)
(* texture synchroniser and the batch writer.                              *)
(*                                                                         *)
(* Text is modelled line by line.  A line is a record                      *)
(*    [ind  : whether the raw line starts with white space,                *)
(*     toks : the white-space separated tokens before any '//',            *)
(*     cmt  : the tokens after the first '//' (<<>>: the line has no '//')]*)
(* Braces, ':' and '//' only occur as tokens of their own, and no token of *)
(* the alphabets below is a proper prefix of another keyword, so           *)
(* str.startswith(keyword) on a stripped line is a test of its first token.*)
(***************************************************************************)
EXTENDS Integers, Sequences, FiniteSets, TLC

VARIABLES
    pc,         \* position of the driver of the specification in use
    npieces,    \* number of input pieces the driver has supplied so far
    txt,        \* the chunk text handed to OgreMaterialScript
    omat        \* the constructed OgreMaterialScript (or the error it raised)

VARIABLES
    file,            \* the lines of the .material file being written or just read
    forg,            \* for each line of file, the kind of block it came from
    fmats,           \* the texts of the material blocks written into file
    url,             \* number of the file: its origin in ENUM_ITEMS
    scripts,         \* the last MaterialScripts object (or the error it raised)
    ALL_MATERIALS,   \* MaterialScripts.ALL_MATERIALS, the Registry
    ENUM_ITEMS,      \* MaterialScripts.ENUM_ITEMS
    logged,          \* the names of the 'material redefined' warnings, in order
    history          \* every definition constructed so far, in order

VARIABLES
    PROGRAMS,   \* the names in OgreProgram.PROGRAMS
    bmat,       \* the Blender material handed to OgreMaterialGenerator
    gen,        \* what generate() returned or raised
    batch,      \* the materials handed to dot_materials
    out,        \* what dot_materials wrote, reported or raised
    fs,         \* the image, its source file and the target file of copy_texture
    copied      \* what the calls of copy_texture did and the rewrites of its source, in order

VARIABLES
    dir,        \* the entries of the directory handed to update_parent_material_path
    scan        \* what the scan of dir collected, or the error it raised

scriptVars == <<txt, omat>>
genVars == <<PROGRAMS, bmat, gen, batch, out, fs, copied>>
fileVars == <<file, forg, fmats, url, scripts>>
regVars == <<ALL_MATERIALS, ENUM_ITEMS, logged, history>>
scanVars == <<dir, scan>>
vars == <<pc, npieces, scriptVars, fileVars, regVars, genVars, scanVars>>

-----------------------------------------------------------------------------
(* Lines *)

Ln(ind, toks, cmt) == [ind |-> ind, toks |-> toks, cmt |-> cmt]
L(toks)  == Ln(FALSE, toks, <<>>)       \* a line at column 0
IL(toks) == Ln(TRUE, toks, <<>>)        \* an indented line

\* str.split(): all white-space separated tokens of the raw line
RawToks(l) == l.toks \o (IF l.cmt = <<>> THEN <<>> ELSE <<"//">> \o l.cmt)

\* line.split('//')[0].strip(), as its tokens
CodeToks(l) == l.toks

\* not line.strip(): a raw line of white space only
IsBlank(l) == l.toks = <<>> /\ l.cmt = <<>>

\* line == '}' on the raw line: no indentation, no comment
RawIsClose(l) == ~l.ind /\ l.toks = <<"}">> /\ l.cmt = <<>>

\* line.strip() == '}' on the raw line
StripIsClose(l) == l.toks = <<"}">> /\ l.cmt = <<>>

\* line.startswith(kw) on a stripped code line
StartsWith(toks, kw) == Len(toks) > 0 /\ toks[1] = kw

RECURSIVE CountTok(_, _)
CountTok(s, ch) ==
    IF s = <<>> THEN 0
    ELSE (IF Head(s) = ch THEN 1 ELSE 0) + CountTok(Tail(s), ch)

\* ''.join(lines).count(ch), ch a brace: braces in comments count too
RECURSIVE CountIn(_, _)
CountIn(lines, ch) ==
    IF lines = <<>> THEN 0
    ELSE CountTok(RawToks(Head(lines)), ch) + CountIn(Tail(lines), ch)

Balanced(lines) == CountIn(lines, "{") = CountIn(lines, "}")

\* Op applied to the value of e: e is evaluated once, whatever use Op makes
\* of its parameter
Bind(e, Op(_)) == CHOOSE r \in {Op(x) : x \in {e}} : TRUE

Last(s) == s[Len(s)]
Front(s) == SubSeq(s, 1, Len(s) - 1)

\* txt.strip() followed by splitlines(): blank lines at both ends go, and so
\* does the indentation of the first line left
RECURSIVE DropLeadingBlank(_)
DropLeadingBlank(ls) ==
    IF ls # <<>> /\ IsBlank(Head(ls)) THEN DropLeadingBlank(Tail(ls)) ELSE ls

RECURSIVE DropTrailingBlank(_)
DropTrailingBlank(ls) ==
    IF ls # <<>> /\ IsBlank(Last(ls)) THEN DropTrailingBlank(Front(ls)) ELSE ls

StripText(ls) ==
    LET s == DropTrailingBlank(DropLeadingBlank(ls))
    IN  IF s = <<>> THEN s ELSE <<[s[1] EXCEPT !.ind = FALSE]>> \o Tail(s)

-----------------------------------------------------------------------------
(* float(): value tokens and their characters.  Values are in thousandths. *)

NumTab ==
    ("1.0" :> 1000) @@ ("0.5" :> 500) @@ ("12" :> 12000) @@
    ("0" :> 0) @@ ("1" :> 1000) @@ ("2" :> 2000) @@ ("5" :> 5000)

CharTab ==
    ("1.0" :> <<"1", ".", "0">>) @@ ("0.5" :> <<"0", ".", "5">>) @@
    ("12" :> <<"1", "2">>) @@ ("on" :> <<"o", "n">>)

IsFloat(tok) == tok \in DOMAIN NumTab
FloatOf(tok) == NumTab[tok]
Chars(tok) == IF tok \in DOMAIN CharTab THEN CharTab[tok] ELSE <<tok>>


-----------------------------------------------------------------------------
(* Python dicts: insertion-ordered sequences of <<key, value>> pairs.  A   *)
(* dict that holds objects holds their index in the parse's object list,   *)
(* so that a later mutation of the object is seen through the dict.        *)

DictHas(d, k) == \E i \in 1..Len(d) : d[i][1] = k
DictGet(d, k) == d[CHOOSE i \in 1..Len(d) : d[i][1] = k][2]
DictPut(d, k, v) ==
    IF DictHas(d, k)
    THEN [i \in 1..Len(d) |-> IF d[i][1] = k THEN <<k, v>> ELSE d[i]]
    ELSE Append(d, <<k, v>>)
DictPop(d, k) == SelectSeq(d, LAMBDA e : e[1] # k)
DictKeys(d) == {d[i][1] : i \in 1..Len(d)}
DictValues(d) == {d[i][2] : i \in 1..Len(d)}

-----------------------------------------------------------------------------
(* OgreMaterialScript.__init__: the per-chunk parser *)

NoErr == "ok"

\* the header: name and parent from the first line of the stripped text
ParseHeader(data) ==
    IF data = <<>> THEN [err |-> "IndexError", name |-> "", parent |-> <<>>]
    ELSE LET line == data[1]
             raw == RawToks(line)
             nc == CountTok(raw, ":")
             ci == CHOOSE i \in 1..Len(raw) : raw[i] = ":"
             before == IF nc = 1 THEN SubSeq(raw, 1, ci - 1) ELSE raw
         IN  IF ~StartsWith(raw, "material")
                 THEN [err |-> "AssertionError", name |-> "", parent |-> <<>>]
             ELSE IF nc > 1
                 THEN [err |-> "ValueError", name |-> "", parent |-> <<>>]
             ELSE [err |-> NoErr,
                   name |-> Last(before),
                   parent |-> IF nc = 1 THEN SubSeq(raw, ci + 1, Len(raw)) ELSE <<>>]

\* the state of the line loop
LoopInit ==
    [err |-> NoErr, brace |-> 0, techs |-> <<>>, passes |-> <<>>,
     texo |-> <<>>, progo |-> <<>>,
     texture_units |-> <<>>, texture_units_order |-> <<>>,
     vertex_programs |-> <<>>, fragment_programs |-> <<>>,
     prog |-> 0, tex |-> 0,
     otv |-> [bound |-> FALSE, o |-> "", t |-> "", v |-> [list |-> FALSE, toks |-> <<>>]]]

NewPass == [texture_units |-> <<>>, vprogram |-> 0, fprogram |-> 0, body |-> <<>>]

\* lines 559-560: the brace counter; a '}' also leaves the program-ref and
\* texture-unit contexts
BraceStep(s, toks) ==
    IF toks = <<"{">> THEN [s EXCEPT !.brace = @ + 1]
    ELSE IF toks = <<"}">> THEN [s EXCEPT !.brace = @ - 1, !.prog = 0, !.tex = 0]
    ELSE s

\* lines 577-582: vertex_program_ref / fragment_program_ref
ProgramRefStep(s, pi, toks, kind) ==
    LET obj == [name |-> Last(toks), params |-> <<>>]
        idx == Len(s.progo) + 1
        s1 == [s EXCEPT !.progo = Append(@, obj), !.prog = idx]
    IN  IF kind = "vertex"
        THEN [s1 EXCEPT !.passes[pi].vprogram = idx,
                        !.vertex_programs = DictPut(@, obj.name, idx)]
        ELSE [s1 EXCEPT !.passes[pi].fprogram = idx,
                        !.fragment_programs = DictPut(@, obj.name, idx)]

\* lines 584-593: texture_unit
TextureUnitStep(s, pi, toks) ==
    LET obj == [name |-> Last(toks), params |-> <<>>]
        idx == Len(s.texo) + 1
        s1 == [s EXCEPT !.texo = Append(@, obj), !.prog = 0, !.tex = idx]
    IN  IF obj.name = "texture_unit" THEN s1
        ELSE [s1 EXCEPT !.passes[pi].texture_units = Append(@, idx),
                        !.texture_units = DictPut(@, obj.name, idx),
                        !.texture_units_order = Append(@, obj.name)]

\* lines 609-611: the numeric value of a parameter
ParamValue(t, v) ==
    IF t = "float"
    THEN IF v.list THEN [err |-> "TypeError", has |-> FALSE, scalar |-> TRUE, nums |-> <<>>]
         ELSE IF ~IsFloat(v.toks[1])
              THEN [err |-> "ValueError", has |-> FALSE, scalar |-> TRUE, nums |-> <<>>]
         ELSE [err |-> NoErr, has |-> TRUE, scalar |-> TRUE, nums |-> <<FloatOf(v.toks[1])>>]
    ELSE IF t \in {"float2", "float3", "float4"}
    THEN LET elems == IF v.list THEN v.toks ELSE Chars(v.toks[1])
         IN  IF \E i \in 1..Len(elems) : ~IsFloat(elems[i])
             THEN [err |-> "ValueError", has |-> FALSE, scalar |-> FALSE, nums |-> <<>>]
             ELSE [err |-> NoErr, has |-> TRUE, scalar |-> FALSE,
                   nums |-> [i \in 1..Len(elems) |-> FloatOf(elems[i])]]
    ELSE [err |-> NoErr, has |-> FALSE, scalar |-> FALSE, nums |-> <<>>]

\* lines 595-611: a line inside a program-ref context
ParamStep(s, toks) ==
    IF toks[1] # "param_named" THEN s
    ELSE LET n == Len(toks)
             otv == IF n = 4
                        THEN [bound |-> TRUE, o |-> toks[2], t |-> toks[3],
                              v |-> [list |-> FALSE, toks |-> <<toks[4]>>]]
                    ELSE IF n = 3
                        THEN [bound |-> TRUE, o |-> toks[2], t |-> "class",
                              v |-> [list |-> FALSE, toks |-> <<toks[3]>>]]
                    ELSE IF n > 4
                        THEN [bound |-> TRUE, o |-> toks[2], t |-> toks[3],
                              v |-> [list |-> TRUE, toks |-> SubSeq(toks, 4, n)]]
                    ELSE s.otv
             val == ParamValue(otv.t, otv.v)
             opt == [name |-> otv.o, type |-> otv.t, raw_value |-> otv.v,
                     has |-> val.has, scalar |-> val.scalar, nums |-> val.nums]
         IN  IF ~otv.bound THEN [s EXCEPT !.err = "UnboundLocalError"]
             ELSE [s EXCEPT !.otv = otv,
                            !.progo[s.prog].params = DictPut(@, otv.o, opt),
                            !.err = val.err]

\* lines 613-614: a line inside a texture-unit context
TexParamStep(s, toks) ==
    [s EXCEPT !.texo[s.tex].params = DictPut(@, toks[1], Tail(toks))]

\* lines 571-614: a line once the current technique has a pass
PassLineStep(s, rawline, toks) ==
    LET pi == Last(Last(s.techs).passes)
        s1 == [s EXCEPT !.passes[pi].body = Append(@, rawline)]
    IN  IF toks = <<"{">> \/ toks = <<"}">> THEN s1
        ELSE IF StartsWith(toks, "vertex_program_ref") THEN ProgramRefStep(s1, pi, toks, "vertex")
        ELSE IF StartsWith(toks, "fragment_program_ref") THEN ProgramRefStep(s1, pi, toks, "fragment")
        ELSE IF StartsWith(toks, "texture_unit") THEN TextureUnitStep(s1, pi, toks)
        ELSE IF s1.prog # 0 THEN ParamStep(s1, toks)
        ELSE IF s1.tex # 0 THEN TexParamStep(s1, toks)
        ELSE s1

\* lines 552-614: one iteration of the line loop
LineStep(s, rawline) ==
    LET toks == CodeToks(rawline)
        s1 == BraceStep(s, toks)
    IN  IF toks = <<>> THEN s
        ELSE IF StartsWith(toks, "technique")
            THEN [s1 EXCEPT !.techs = Append(@,
                     [name |-> IF Len(toks) > 1 THEN <<Last(toks)>> ELSE <<>>,
                      passes |-> <<>>])]
        ELSE IF s1.techs # <<>>
            THEN IF StartsWith(toks, "pass")
                 THEN [s1 EXCEPT !.passes = Append(@, NewPass),
                                 !.techs[Len(s1.techs)].passes = Append(@, Len(s1.passes) + 1)]
                 ELSE IF Last(s1.techs).passes # <<>>
                      THEN PassLineStep(s1, rawline, toks)
                      ELSE s1
        ELSE s1

\* lines 552-614: the loop over lines[lo..hi], split in halves to keep the
\* evaluation shallow; an error ends the loop
RECURSIVE LineRange(_, _, _, _)
LineRange(s, lines, lo, hi) ==
    IF lo > hi \/ s.err # NoErr THEN s
    ELSE IF lo = hi THEN LineStep(s, lines[lo])
    ELSE Bind(LineRange(s, lines, lo, (lo + hi) \div 2),
              LAMBDA left : LineRange(left, lines, (lo + hi) \div 2 + 1, hi))

LineLoop(s, lines) == LineRange(s, lines, 1, Len(lines))

\* TrimBody with the test of the last line left out: any trailing line goes
RECURSIVE TrimBodyAnyLine(_)
TrimBodyAnyLine(lines) ==
    IF lines # <<>> /\ ~Balanced(lines)
    THEN TrimBodyAnyLine(Front(lines))
    ELSE lines

\* lines 618-620: drop trailing '}' lines while the braces do not balance
RECURSIVE TrimBody(_)
TrimBody(lines) ==
    IF lines # <<>> /\ ~Balanced(lines) /\ StripIsClose(Last(lines))
    THEN TrimBody(Front(lines))
    ELSE lines

\* lines 616-622: every pass body is trimmed and must then balance
TrimPasses(s) ==
    LET trimmed == [i \in 1..Len(s.passes) |->
                        [s.passes[i] EXCEPT !.body = TrimBody(@)]]
    IN  IF \E i \in 1..Len(trimmed) : ~Balanced(trimmed[i].body)
        THEN [s EXCEPT !.err = "AssertionError"]
        ELSE [s EXCEPT !.passes = trimmed]

\* lines 625-631: texture units of the mapping that lack a 'texture' parameter
HiddenTextureUnits(s) ==
    SelectSeq(s.texture_units, LAMBDA e : ~DictHas(s.texo[e[2]].params, "texture"))

\* RemoveHidden with the removal loop left out
RemoveHiddenNothing(s) == s

RemoveHidden(s) ==
    LET rem == HiddenTextureUnits(s)
    IN  [s EXCEPT !.texture_units =
            SelectSeq(@, LAMBDA e : \A i \in 1..Len(rem) : rem[i][1] # e[1])]

OgreMaterialScript(text, u) ==
    LET data == StripText(text)
        hdr == ParseHeader(data)
        failed(e) == [err |-> e, url |-> u, name |-> hdr.name]
    IN  IF hdr.err # NoErr THEN failed(hdr.err)
        ELSE LET s1 == LineLoop(LoopInit, data)
                 s2 == IF s1.err = NoErr THEN TrimPasses(s1) ELSE s1
                 s3 == IF s2.err = NoErr THEN RemoveHidden(s2) ELSE s2
             IN  IF s3.err # NoErr THEN failed(s3.err)
                 ELSE [err |-> NoErr, url |-> u, name |-> hdr.name,
                       parent |-> hdr.parent,
                       techniques |-> s3.techs, passes |-> s3.passes,
                       texo |-> s3.texo, progo |-> s3.progo,
                       texture_units |-> s3.texture_units,
                       texture_units_order |-> s3.texture_units_order,
                       vertex_programs |-> s3.vertex_programs,
                       fragment_programs |-> s3.fragment_programs,
                       hidden_texture_units |-> HiddenTextureUnits(s2)]


-----------------------------------------------------------------------------
(* MaterialScripts.__init__: the file chunker and the Registry *)

ProgramWords == {"vertex_program", "fragment_program", "abstract"}

\* lines 661-672: one line of the chunking loop.  The chunks hold the
\* numbers of the lines of the file; mat is the last chunk once there is one.
ChopStep(c, data, i) ==
    LET line == data[i]
        a == RawToks(line)[1]
    IN  IF IsBlank(line) THEN c
        ELSE IF a = "material" THEN [c EXCEPT !.mats = Append(@, <<i>>)]
        ELSE IF a \in ProgramWords THEN [c EXCEPT !.skip = TRUE]
        ELSE IF c.mats # <<>> /\ ~c.skip
            THEN [c EXCEPT !.mats[Len(c.mats)] = Append(@, i)]
        ELSE IF c.skip /\ RawIsClose(line) THEN [c EXCEPT !.skip = FALSE]
        ELSE c

\* lines 661-672: the loop over lines lo..hi, split in halves to keep the
\* evaluation shallow
RECURSIVE ChopRange(_, _, _, _)
ChopRange(c, data, lo, hi) ==
    IF lo > hi THEN c
    ELSE IF lo = hi THEN ChopStep(c, data, lo)
    ELSE Bind(ChopRange(c, data, lo, (lo + hi) \div 2),
              LAMBDA left : ChopRange(left, data, (lo + hi) \div 2 + 1, hi))

\* lines 658-672: the chunks of a file, as line numbers
Chop(data) == ChopRange([mats |-> <<>>, skip |-> FALSE], data, 1, Len(data)).mats

\* '\n'.join(mat)
ChunkText(data, mat) == [k \in 1..Len(mat) |-> data[mat[k]]]

\* RegisterMaterial that keeps the definition already registered under a name
RegisterKeepFirst(r, m, u) ==
    LET seen == DictHas(r.all, m.name)
    IN  [r EXCEPT
            !.logged = IF seen THEN Append(@, m.name) ELSE @,
            !.materials = DictPut(@, m.name, m),
            !.all = IF seen THEN @ ELSE DictPut(@, m.name, m),
            !.enum = IF m.vertex_programs # <<>> \/ m.fragment_programs # <<>>
                     THEN Append(@, <<m.name, m.name, u>>) ELSE @]

\* lines 677-686: a constructed definition enters the Registry
RegisterMaterial(r, m, u) ==
    [r EXCEPT
        !.logged = IF DictHas(r.all, m.name) THEN Append(@, m.name) ELSE @,
        !.materials = DictPut(@, m.name, m),
        !.all = DictPut(@, m.name, m),
        !.enum = IF m.vertex_programs # <<>> \/ m.fragment_programs # <<>>
                 THEN Append(@, <<m.name, m.name, u>>) ELSE @]

\* lines 675-686: the chunks are constructed and registered in order; an
\* error of a constructor leaves the loop and the constructor of the file
RECURSIVE RegisterLoop(_, _, _, _)
RegisterLoop(r, data, mats, u) ==
    IF mats = <<>> THEN r
    ELSE Bind(OgreMaterialScript(ChunkText(data, Head(mats)), u),
              LAMBDA m :
                  IF m.err # NoErr THEN [r EXCEPT !.err = m.err]
                  ELSE Bind([RegisterMaterial(r, m, u) EXCEPT !.parsed = Append(@, m)],
                            LAMBDA r1 : RegisterLoop(r1, data, Tail(mats), u)))

\* MaterialScripts(url) on a file holding data, with the class attributes
\* ALL_MATERIALS, ENUM_ITEMS and the log as they are
MaterialScripts(u, data, all, enum, log) ==
    LET mats == Chop(data)
        r == RegisterLoop([err |-> NoErr, all |-> all, enum |-> enum, logged |-> log,
                           materials |-> <<>>, parsed |-> <<>>], data, mats, u)
    IN  r @@ [url |-> u, mats |-> mats]

NoScripts == [err |-> "none"]

IdleFiles ==
    /\ file = <<>> /\ forg = <<>> /\ fmats = <<>> /\ url = 0
    /\ scripts = NoScripts
    /\ ALL_MATERIALS = <<>> /\ ENUM_ITEMS = <<>> /\ logged = <<>> /\ history = <<>>

NoFile == [exists |-> FALSE]

IdleScan == dir = <<>> /\ scan = NoScripts

IdleGen ==
    /\ PROGRAMS = {} /\ bmat = NoScripts /\ gen = NoScripts
    /\ batch = <<>> /\ out = NoScripts
    /\ fs = NoScripts /\ copied = NoScripts

-----------------------------------------------------------------------------
(* SpecScript: OgreMaterialScript(txt, url) on chunk texts built from a    *)
(* start and up to MaxPieces pieces.                                       *)

MaxPieces == 3

NoObj == [err |-> "none"]

HeadA == <<L(<<"material", "A">>), L(<<"{">>), IL(<<"technique">>), IL(<<"{">>),
           IL(<<"pass">>), IL(<<"{">>)>>
HeadB == <<IL(<<>>), IL(<<"material", "B", ":", "Base">>), L(<<"{">>),
           IL(<<"technique", "t1">>), IL(<<"{">>), IL(<<"pass", "p1">>), IL(<<"{">>)>>

ScriptStarts == {<<>>, <<IL(<<"technique">>)>>, HeadA, HeadB}

TexUnit(name, body) ==
    <<IL(<<"texture_unit">> \o name), IL(<<"{">>)>> \o body \o <<IL(<<"}">>)>>

ScriptPieces ==
    { <<IL(<<"{">>)>>,
      <<IL(<<"}">>)>>,
      <<L(<<"}">>)>>,
      <<Ln(TRUE, <<"}">>, <<"end">>)>>,
      <<Ln(TRUE, <<"shading", "phong">>, <<"{">>)>>,
      <<IL(<<"lighting", "off">>)>>,
      <<IL(<<"pass", "p2">>), IL(<<"{">>)>>,
      <<IL(<<"technique", "t2">>)>>,
      TexUnit(<<"T1">>, <<IL(<<"texture", "a.png">>)>>),
      TexUnit(<<"T2">>, <<IL(<<"tex_address_mode", "wrap">>)>>),
      TexUnit(<<"T1">>, <<>>),
      TexUnit(<<>>, <<IL(<<"texture", "b.png">>)>>),
      <<IL(<<"vertex_program_ref", "V1">>), IL(<<"{">>),
        IL(<<"param_named", "x", "float", "1.0">>), IL(<<"}">>)>>,
      <<IL(<<"}">>), IL(<<"}">>), L(<<"}">>)>> }

InitScript ==
    /\ pc = "build"
    /\ npieces = 0
    /\ txt \in ScriptStarts
    /\ omat = NoObj
    /\ IdleFiles
    /\ IdleScan
    /\ IdleGen

AddPiece(p) ==
    /\ pc = "build"
    /\ npieces < MaxPieces
    /\ npieces' = npieces + 1
    /\ txt' = txt \o p
    /\ UNCHANGED <<scanVars, pc, omat, fileVars, regVars, genVars>>

Construct ==
    /\ pc = "build"
    /\ omat' = OgreMaterialScript(txt, 1)
    /\ pc' = "done"
    /\ UNCHANGED <<scanVars, npieces, txt, fileVars, regVars, genVars>>

NextScript ==
    \/ \E p \in ScriptPieces : AddPiece(p)
    \/ Construct

SpecScript == InitScript /\ [][NextScript]_vars

\* the pass bodies as the line loop collected them, before trimming
RawBodies == LineLoop(LoopInit, StripText(txt)).passes

\* C1: a constructed script either failed, or every pass body balances, is
\* its collected body minus trailing lines that all strip to '}', and no
\* longer prefix that the trimming passed over balances
C1_BodiesBalanced ==
    (pc = "done" /\ omat.err = NoErr) =>
        /\ Len(omat.passes) = Len(RawBodies)
        /\ \A i \in 1..Len(omat.passes) :
            LET body == omat.passes[i].body
                raw == RawBodies[i].body
            IN  /\ Balanced(body)
                /\ Len(body) <= Len(raw)
                /\ body = SubSeq(raw, 1, Len(body))
                /\ \A k \in (Len(body) + 1)..Len(raw) :
                      /\ StripIsClose(raw[k])
                      /\ ~Balanced(SubSeq(raw, 1, k))

C1_Witness ==
    /\ pc = "done" /\ omat.err = NoErr
    /\ \E i \in 1..Len(omat.passes) :
          /\ Len(omat.passes[i].body) + 2 <= Len(RawBodies[i].body)
          /\ Len(omat.passes[i].body) > 2

\* C4: every entry of texture_units has a 'texture' parameter, and no named
\* unit without one is a value of the mapping
C4_MappingHasTexture ==
    (pc = "done" /\ omat.err = NoErr) =>
        /\ \A i \in 1..Len(omat.texture_units) :
              DictHas(omat.texo[omat.texture_units[i][2]].params, "texture")
        /\ \A j \in 1..Len(omat.texo) :
              ~DictHas(omat.texo[j].params, "texture")
                  => j \notin DictValues(omat.texture_units)

C4_Witness ==
    /\ pc = "done" /\ omat.err = NoErr
    /\ \E j \in 1..Len(omat.texo) :
          /\ omat.texo[j].name = "T2"
          /\ ~DictHas(omat.texo[j].params, "texture")
    /\ DictHas(omat.texture_units, "T1")

-----------------------------------------------------------------------------
(* SpecParam: one param_named line written into the vertex_program_ref     *)
(* block of a well-formed chunk, optionally after an earlier parameter.    *)

MaxVals == 4

ValToks == {"1.0", "12", "on"}
ParamTypes == {"float", "float2", "float3", "float4", "int"}

RECURSIVE SeqsUpTo(_, _)
SeqsUpTo(S, k) ==
    IF k = 0 THEN {<<>>}
    ELSE LET shorter == SeqsUpTo(S, k - 1)
         IN  shorter \cup {Append(q, x) : q \in shorter, x \in S}

\* param_named x | param_named x <v> | param_named x <type> <v1..vk>
ParamLines ==
    {IL(<<"param_named", "x">>)}
    \cup {IL(<<"param_named", "x", v>>) : v \in ValToks}
    \cup {IL(<<"param_named", "x", t>> \o vs) :
              t \in ParamTypes, vs \in SeqsUpTo(ValToks, MaxVals) \ {<<>>}}

ParamHead == HeadA \o <<IL(<<"vertex_program_ref", "V1">>), IL(<<"{">>)>>
ParamTail == <<IL(<<"}">>), IL(<<"}">>), IL(<<"}">>), L(<<"}">>)>>
ParamEarlier == IL(<<"param_named", "y", "float", "0.5">>)

InitParam ==
    /\ pc = "build"
    /\ npieces = 0
    /\ txt \in {ParamHead \o ParamTail, ParamHead \o <<ParamEarlier>> \o ParamTail}
    /\ omat = NoObj
    /\ IdleFiles
    /\ IdleScan
    /\ IdleGen

AddParam(l) ==
    /\ pc = "build"
    /\ npieces = 0
    /\ npieces' = 1
    /\ txt' = SubSeq(txt, 1, Len(txt) - Len(ParamTail)) \o <<l>> \o ParamTail
    /\ UNCHANGED <<scanVars, pc, omat, fileVars, regVars, genVars>>

NextParam ==
    \/ \E l \in ParamLines : AddParam(l)
    \/ (npieces = 1 /\ Construct)

SpecParam == InitParam /\ [][NextParam]_vars

\* the parameter line the driver wrote, and what the parse recorded for it
ParamLine == txt[Len(txt) - Len(ParamTail)]
ParamToks == CodeToks(ParamLine)
ParamVals == SubSeq(ParamToks, 4, Len(ParamToks))
ParamsOfV1 == omat.progo[DictGet(omat.vertex_programs, "V1")].params
AllNumeric(vs) == \A i \in 1..Len(vs) : IsFloat(vs[i])
VecLen(t) == IF t = "float2" THEN 2 ELSE IF t = "float3" THEN 3 ELSE 4

\* C7 (as claimed): a param_named line with a type and numeric value tokens
\* is recorded under its name with that type; float carries one float,
\* floatN the list of exactly N floats parsed from the tokens after the
\* type, any other type (and the 3-token form, typed 'class') only the raw
\* tokens, and for those the parse does not fail
C7_ParamTyped ==
    (pc = "done" /\ npieces = 1 /\ Len(ParamToks) >= 3) =>
        LET t == IF Len(ParamToks) = 3 THEN "class" ELSE ParamToks[3]
            vs == IF Len(ParamToks) = 3 THEN <<ParamToks[3]>> ELSE ParamVals
            opt == DictGet(ParamsOfV1, "x")
        IN  IF t \in {"float", "float2", "float3", "float4"}
            THEN AllNumeric(vs) =>
                  /\ omat.err = NoErr
                  /\ DictHas(ParamsOfV1, "x")
                  /\ opt.type = t
                  /\ opt.has
                  /\ IF t = "float"
                     THEN opt.scalar /\ Len(opt.nums) = 1
                     ELSE /\ ~opt.scalar
                          /\ Len(opt.nums) = VecLen(t)
                          /\ opt.nums = [i \in 1..VecLen(t) |-> FloatOf(vs[i])]
            ELSE /\ omat.err = NoErr
                 /\ DictHas(ParamsOfV1, "x")
                 /\ opt.type = t
                 /\ ~opt.has
                 /\ opt.raw_value.toks = vs

\* the well-formed part of C7: float with one numeric token, floatN with
\* exactly N numeric tokens, other types with any tokens
C7_WellFormedHolds ==
    (pc = "done" /\ npieces = 1 /\ Len(ParamToks) >= 4) =>
        LET t == ParamToks[3]
            opt == DictGet(ParamsOfV1, "x")
        IN  /\ (t = "float" /\ Len(ParamVals) = 1 /\ AllNumeric(ParamVals)) =>
                  omat.err = NoErr /\ opt.has /\ opt.nums = <<FloatOf(ParamVals[1])>>
            /\ (t \in {"float2", "float3", "float4"} /\ Len(ParamVals) = VecLen(t)
                    /\ AllNumeric(ParamVals)) =>
                  /\ omat.err = NoErr /\ opt.has
                  /\ opt.nums = [i \in 1..VecLen(t) |-> FloatOf(ParamVals[i])]

-----------------------------------------------------------------------------
(* SpecFiles: .material files written block by block and read one after    *)
(* the other, as parse_material_and_program_scripts reads a directory.     *)

MaxBlocks == 3

Shell(name, body) ==
    <<L(<<"material">> \o name), L(<<"{">>), IL(<<"technique">>), IL(<<"{">>),
      IL(<<"pass">>), IL(<<"{">>)>> \o body \o <<IL(<<"}">>), IL(<<"}">>), L(<<"}">>)>>

MatA == Shell(<<"A">>, <<IL(<<"lighting", "off">>)>>)
MatA2 == Shell(<<"A">>,
            <<IL(<<"vertex_program_ref", "V1">>), IL(<<"{">>), IL(<<"}">>)>>
            \o TexUnit(<<"T1">>, <<IL(<<"texture", "a.png">>)>>))
MatB == Shell(<<"B", ":", "A">>, <<>>)
\* a material whose pass is never closed
MatOpen == <<L(<<"material", "C">>), L(<<"{">>), IL(<<"technique">>), IL(<<"{">>),
             IL(<<"pass">>), IL(<<"{">>), IL(<<"lighting", "off">>)>>

ProgFlat == <<L(<<"vertex_program", "VP", "cg">>), L(<<"{">>),
              IL(<<"source", "vp.cg">>), L(<<"}">>)>>
ProgIndented == <<IL(<<"fragment_program", "FP", "cg">>), IL(<<"{">>),
                  IL(<<"source", "fp.cg">>), IL(<<"}">>)>>
ProgNested == <<L(<<"vertex_program", "VN", "cg">>), L(<<"{">>),
                IL(<<"source", "vn.cg">>), IL(<<"default_params">>), IL(<<"{">>),
                IL(<<"param_named_auto", "wvp", "worldviewproj_matrix">>), IL(<<"}">>),
                L(<<"}">>)>>
ProgNestedFlat == <<L(<<"vertex_program", "VF", "cg">>), L(<<"{">>),
                    L(<<"default_params">>), L(<<"{">>), L(<<"}">>),
                    L(<<"entry_point", "main">>), L(<<"}">>)>>
ProgDeepFlat == <<L(<<"fragment_program", "FD", "cg">>), L(<<"{">>),
                  L(<<"default_params">>), L(<<"{">>), L(<<"}">>),
                  L(<<"texture_unit", "shadow">>), L(<<"{">>),
                  L(<<"texture", "s.png">>), L(<<"{">>), L(<<"}">>), L(<<"}">>),
                  L(<<"}">>)>>
AbstractFlat == <<L(<<"abstract", "pass", "Base/PASS0">>), L(<<"{">>),
                  IL(<<"lighting", "on">>), L(<<"}">>)>>

MaterialBlocks == {MatA, MatA2, MatB, MatOpen}
ProgramBlocks == {ProgFlat, ProgIndented, ProgNested, ProgNestedFlat, ProgDeepFlat,
                  AbstractFlat}

\* the origin of each line of a block: a material line, or the opening
\* line, an inner line or the matching closing brace of a program block
Origins(b) ==
    [k \in 1..Len(b) |->
        IF b \in MaterialBlocks THEN "material"
        ELSE IF k = 1 THEN "open" ELSE IF k = Len(b) THEN "close" ELSE "inner"]

InitFiles ==
    /\ pc = "write"
    /\ npieces = 0
    /\ txt = <<>> /\ omat = NoObj
    /\ IdleFiles
    /\ IdleScan
    /\ IdleGen

\* a block is written at the end of the file, or starts the next file
WriteBlock(b) ==
    /\ pc \in {"write", "read"}
    /\ npieces < MaxBlocks
    /\ npieces' = npieces + 1
    /\ pc' = "write"
    /\ file' = (IF pc = "read" THEN <<>> ELSE file) \o b
    /\ forg' = (IF pc = "read" THEN <<>> ELSE forg) \o Origins(b)
    /\ fmats' = (IF pc = "read" THEN <<>> ELSE fmats)
                    \o (IF b \in MaterialBlocks THEN <<b>> ELSE <<>>)
    /\ UNCHANGED <<scanVars, url, scripts, scriptVars, regVars, genVars>>

\* line 496: scripts.append( MaterialScripts( url ) )
ReadFile ==
    /\ pc = "write" /\ file # <<>>
    /\ \E ms \in {MaterialScripts(url + 1, file, ALL_MATERIALS, ENUM_ITEMS, logged)} :
           /\ scripts' = ms
           /\ ALL_MATERIALS' = ms.all
           /\ ENUM_ITEMS' = ms.enum
           /\ logged' = ms.logged
           /\ history' = history \o ms.parsed
    /\ url' = url + 1
    /\ pc' = "read"
    /\ UNCHANGED <<scanVars, npieces, file, forg, fmats, scriptVars, genVars>>

NextFiles ==
    \/ \E b \in MaterialBlocks \cup ProgramBlocks : WriteBlock(b)
    \/ ReadFile

SpecFiles == InitFiles /\ [][NextFiles]_vars

\* the lines of program and abstract blocks of the file that lie between
\* the opening line and the matching closing brace
InnerLines == {file[i] : i \in {j \in 1..Len(file) : forg[j] = "inner"}}
IsBrace(l) == CodeToks(l) = <<"{">> \/ CodeToks(l) = <<"}">>

\* every material block of the file is a well-formed chunk of its own
BlocksWellFormed ==
    \A k \in 1..Len(fmats) : OgreMaterialScript(fmats[k], url).err = NoErr

\* C2 (as claimed): after a file of well-formed material blocks and
\* program/abstract blocks is read, no inner line of a program block is in a
\* chunk or in a pass body or names a texture unit, and every material
\* block has yielded the definition it yields on its own
C2_ProgramsSkipped ==
    (pc = "read" /\ BlocksWellFormed) =>
        /\ \A c \in 1..Len(scripts.mats) : \A k \in 1..Len(scripts.mats[c]) :
              forg[scripts.mats[c][k]] # "inner"
        /\ \A d \in 1..Len(scripts.parsed) : \A q \in 1..Len(scripts.parsed[d].passes) :
              \A k \in 1..Len(scripts.parsed[d].passes[q].body) :
                  LET l == scripts.parsed[d].passes[q].body[k]
                  IN  IsBrace(l) \/ l \notin InnerLines
        /\ scripts.err = NoErr
        /\ Len(scripts.parsed) = Len(fmats)
        /\ \A k \in 1..Len(fmats) :
              scripts.parsed[k] = OgreMaterialScript(fmats[k], url)

\* what C2 leaves true: a program block in which only the closing brace is
\* at column 0 is skipped whole, wherever it stands
C2_FlatCloseSkipped ==
    (pc = "read" /\ BlocksWellFormed
        /\ \A i \in 1..Len(file) :
              /\ forg[i] \in {"open", "inner"} => ~RawIsClose(file[i])
              /\ forg[i] = "close" => RawIsClose(file[i])) =>
        /\ scripts.err = NoErr
        /\ Len(scripts.parsed) = Len(fmats)
        /\ \A k \in 1..Len(fmats) :
              scripts.parsed[k] = OgreMaterialScript(fmats[k], url)

\* the last definition constructed under a name
LastOf(name) ==
    history[CHOOSE i \in 1..Len(history) :
                /\ history[i].name = name
                /\ \A j \in (i + 1)..Len(history) : history[j].name # name]

\* the names that were already registered when they were constructed again
Redefined ==
    LET idx == {i \in 1..Len(history) : \E j \in 1..(i - 1) : history[j].name = history[i].name}
        RECURSIVE Pick(_)
        Pick(i) == IF i > Len(history) THEN <<>>
                   ELSE (IF i \in idx THEN <<history[i].name>> ELSE <<>>) \o Pick(i + 1)
    IN  Pick(1)

\* C3: the Registry holds, under exactly the names constructed so far, the
\* definition constructed last under each; the warnings are those of the
\* constructions under a name already present; and a file is only left
\* unfinished by a chunk that failed to construct
C3_LastWriteWins ==
    /\ DictKeys(ALL_MATERIALS) = {history[i].name : i \in 1..Len(history)}
    /\ \A name \in DictKeys(ALL_MATERIALS) : DictGet(ALL_MATERIALS, name) = LastOf(name)
    /\ logged = Redefined
    /\ pc = "read" =>
          \/ scripts.err = NoErr /\ Len(scripts.parsed) = Len(scripts.mats)
          \/ /\ Len(scripts.parsed) < Len(scripts.mats)
             /\ OgreMaterialScript(
                    ChunkText(file, scripts.mats[Len(scripts.parsed) + 1]), url).err
                  = scripts.err

C3_Witness ==
    /\ pc = "read"
    /\ logged = <<"A">>
    /\ Len(history) = 2
    /\ history[1] # history[2]
    /\ DictGet(ALL_MATERIALS, "A") = history[2]

-----------------------------------------------------------------------------
(* util.IndentedWriter, the text builder of the generator.  A writer holds *)
(* the finished lines, the tokens of the line in progress (open: there is  *)
(* one; ind: it started indented) and the number of open blocks.  A block  *)
(* puts its braces on lines of their own, at the indentation of the line   *)
(* that opens it, as in the script grammar.                                *)

NewWriter == [text |-> <<>>, cur |-> <<>>, open |-> FALSE, ind |-> FALSE, level |-> 0]

\* iword(text): the indentation, when a line starts here, and a word
W_iword(w, toks) ==
    [w EXCEPT !.cur = @ \o toks, !.open = TRUE,
              !.ind = IF w.open THEN @ ELSE w.level > 0]

\* word(text): a word on the line in progress
W_word(w, tok) == [w EXCEPT !.cur = Append(@, tok), !.open = TRUE]

\* nl(): the line in progress ends; without one, an empty line
W_nl(w) ==
    [w EXCEPT !.text = Append(@, Ln(w.open /\ w.ind, w.cur, <<>>)),
              !.cur = <<>>, !.open = FALSE, !.ind = FALSE]

\* iline(text) of a text of one line
W_iline(w, toks) == W_nl(W_iword(w, toks))

\* iline(text) of a text of several lines: the indentation goes before the
\* first, the others are written as they are
W_itext(w, lines) ==
    [w EXCEPT !.text = @ \o <<[lines[1] EXCEPT !.ind = @ \/ w.level > 0]>> \o Tail(lines)]

\* line(text) of a comment
W_comment(w, words) == [w EXCEPT !.text = Append(@, Ln(w.level > 0, <<>>, words))]

\* embed(): entering the block and leaving it
W_enter(w) == [W_iline(W_nl(w), <<"{">>) EXCEPT !.level = @ + 1]
W_exit(w) == W_iline([w EXCEPT !.level = @ - 1], <<"}">>)

-----------------------------------------------------------------------------
(* Numbers of the generator, in millionths, and '%s' of a float.  Values   *)
(* are exact decimals: the rounding of binary floating point is left out.  *)

One == 1000000

RECURSIVE Digits(_, _)
Digits(v, width) ==
    IF width = 0 THEN "" ELSE Digits(v \div 10, width - 1) \o ToString(v % 10)

RECURSIVE Fraction(_, _)
Fraction(v, width) ==
    IF width = 1 \/ v % 10 # 0 THEN Digits(v, width) ELSE Fraction(v \div 10, width - 1)

\* str(x) of a float x >= 0.0001: '128.0', '0.5', '0.0392'
Fmt(x) == ToString(x \div One) \o "." \o Fraction(x % One, 6)

-----------------------------------------------------------------------------
(* Blender materials, as far as the generator reads them.  Colours,        *)
(* metallic and roughness are in hundredths.                               *)

BMaterial(name, useParent, parent, inPass, texnodes, textures) ==
    [name |-> name, library |-> "",
     use_ogre_parent_material |-> useParent, ogre_parent_material |-> parent,
     use_in_ogre_material_pass |-> inPass,
     shadow_method |-> "OPAQUE", blend_method |-> "OPAQUE",
     diffuse_color |-> <<80, 80, 80, 100>>, metallic |-> 0, roughness |-> 50,
     props |-> <<>>, texnodes |-> texnodes, textures |-> textures]

\* util.clean_object_name: characters that a script name cannot hold become '_'
CleanTab == [n \in {"Mat", "Sub", "Mat#1", "A", "B"} |-> IF n = "Mat#1" THEN "Mat_1" ELSE n]
clean_object_name(n) == CleanTab[n]

\* lines 457-476, for a material object
material_name(mat, prefix) ==
    IF mat.library # "" THEN mat.library \o "_" \o clean_object_name(mat.name)
    ELSE prefix \o clean_object_name(mat.name)

None == [err |-> "None"]

\* lines 519-521
get_ogre_user_material(all, name) ==
    IF DictHas(all, name) THEN DictGet(all, name) ELSE None

\* lines 524-529: the programs of the script that the program store knows
get_programs(usermat, progs) ==
    (DictKeys(usermat.vertex_programs) \cup DictKeys(usermat.fragment_programs)) \cap progs

\* lines 636-641: one text per pass, a head line and the raw body
as_abstract_passes(usermat) ==
    [i \in 1..Len(usermat.passes) |->
        <<L(<<"abstract", "pass", usermat.name \o "/PASS" \o ToString(i - 1)>>)>>
        \o (IF usermat.passes[i].body = <<>> THEN <<L(<<>>)>>
            ELSE usermat.passes[i].body)]

-----------------------------------------------------------------------------
(* OgreMaterialGenerator.  A generator g holds its writer, the images it   *)
(* collected and the exception that ended it (NoErr: none).                *)

NewGenerator == [w |-> NewWriter, err |-> NoErr, images |-> {}]

Raise(g, e) == [g EXCEPT !.err = e]

\* lines 125-132: the header of one sub-material
HeaderStep(g, mat, all, progs) ==
    IF g.err # NoErr THEN g
    ELSE IF ~(mat.use_ogre_parent_material /\ mat.ogre_parent_material # "") THEN g
    ELSE LET usermat == get_ogre_user_material(all, mat.ogre_parent_material)
         IN  IF usermat.err = "None" THEN Raise(g, "AttributeError")
             ELSE IF get_programs(usermat, progs) # {}
                 THEN Raise(g, "NameError")
             ELSE LET w1 == W_comment(g.w, <<"user", "material:", usermat.name>>)
                      w2 == W_comment(w1, <<"abstract", "passes", "//">>)
                      texts == as_abstract_passes(usermat)
                      RECURSIVE Write(_, _)
                      Write(w, k) == IF k > Len(texts) THEN w
                                     ELSE Write(W_itext(w, texts[k]), k + 1)
                  IN  [g EXCEPT !.w = Write(w2, 1)]

\* lines 123-132
RECURSIVE generate_header(_, _, _, _)
generate_header(g, passes, all, progs) ==
    IF passes = <<>> THEN g
    ELSE generate_header(HeaderStep(g, Head(passes), all, progs), Tail(passes), all, progs)

\* the PBR translation without the floor of 0.04 under the metallic share
PassShadingNoFloor(mat) ==
    LET color == mat.diffuse_color
        alpha == IF mat.blend_method # "OPAQUE" THEN color[4] * 10000 ELSE One
        bf == 100 - mat.metallic
        mf == mat.metallic
        sc == [k \in 1..3 |-> color[k] * mf * 100 + (100 - mf) * 100 * (100 - mat.roughness)]
        si == (100 - mat.roughness) * 128 * 10000
    IN  [diffuse |-> <<color[1] * bf * 100, color[2] * bf * 100, color[3] * bf * 100, alpha>>,
         specular |-> <<sc[1], sc[2], sc[3], alpha, si>>]

\* lines 153-156 and 178-185: alpha, and the translation from metallic and
\* roughness to diffuse and specular, in millionths
PassShading(mat) ==
    LET color == mat.diffuse_color
        alpha == IF mat.blend_method # "OPAQUE" THEN color[4] * 10000 ELSE One
        bf == 100 - mat.metallic
        mf == IF mat.metallic > 4 THEN mat.metallic ELSE 4
        sc == [k \in 1..3 |-> color[k] * mf * 100 + (100 - mf) * 100 * (100 - mat.roughness)]
        si == (100 - mat.roughness) * 128 * 10000
    IN  [diffuse |-> <<color[1] * bf * 100, color[2] * bf * 100, color[3] * bf * 100, alpha>>,
         specular |-> <<sc[1], sc[2], sc[3], alpha, si>>]

FmtAll(vs) == [k \in 1..Len(vs) |-> Fmt(vs[k])]

\* name.replace('ogre_', '')
PropOp == [n \in {"ogre_depth_write", "ogre_scene_blend"} |->
              IF n = "ogre_depth_write" THEN "depth_write" ELSE "scene_blend"]

\* lines 187-195: the ogre_ properties of the material, in the order of
\* dir(mat), booleans as on/off
RECURSIVE WriteProps(_, _)
WriteProps(w, props) ==
    IF props = <<>> THEN w
    ELSE LET var == Head(props)
             val == IF var.bool THEN (IF var.val THEN "on" ELSE "off") ELSE var.val
         IN  WriteProps(W_nl(W_word(W_iword(w, <<PropOp[var.name]>>), val)), Tail(props))

TEXTURE_ADDRESS_MODE ==
    <<<<"REPEAT", "wrap">>, <<"EXTEND", "clamp">>, <<"CLIP", "border">>, <<"CHECKER", "mirror">>>>

\* lines 395-401
change_ext(image, force) ==
    LET name1 == IF image.file_format # "NONE"
                 THEN image.stem \o "." \o image.file_format
                 ELSE image.stem \o "." \o image.ext
    IN  IF force # "NONE" THEN image.stem \o "." \o force ELSE name1

\* lines 209-254, for a texture with identity scale, no translation, no
\* rotation and UV coordinates
generate_image_texture_unit(w, texture) ==
    LET w1 == W_enter(W_iword(w, <<"texture_unit">>))
        w2 == W_nl(W_word(W_iword(w1, <<"texture">>), change_ext(texture.image, "NONE")))
        exmode == texture.extension
        w3 == IF DictHas(TEXTURE_ADDRESS_MODE, exmode)
              THEN W_nl(W_word(W_iword(w2, <<"tex_address_mode">>),
                               DictGet(TEXTURE_ADDRESS_MODE, exmode)))
              ELSE w2
        w4 == IF exmode = "CLIP"
              THEN W_nl(W_iword(w3, <<"tex_border_colour">> \o FmtAll(texture.color)))
              ELSE w3
        w5 == W_nl(W_word(W_iword(w4, <<"colour_op">>), "modulate"))
    IN  W_exit(w5)

RECURSIVE ImageUnits(_, _)
ImageUnits(w, textures) ==
    IF textures = <<>> THEN w
    ELSE ImageUnits(generate_image_texture_unit(w, Head(textures)), Tail(textures))

\* lines 199-204: the first slot of the parent that has a texture node with a
\* texture reaches generate_texture_unit, which raises (line 257)
SlotRaises(usermat, texnodes) ==
    \E i \in 1..Len(usermat.texture_units_order) : i <= Len(texnodes) /\ texnodes[i]

\* lines 140-207
generate_pass(g, mat, all) ==
    IF g.err # NoErr THEN g
    ELSE
    LET usermat == IF mat.use_ogre_parent_material
                   THEN get_ogre_user_material(all, mat.ogre_parent_material) ELSE None
        texnodes == IF mat.use_ogre_parent_material THEN mat.texnodes ELSE <<>>
        w1 == IF usermat.err # "None"
              THEN W_iword(g.w, <<"pass", ":", usermat.name \o "/PASS0">>)
              ELSE W_iword(g.w, <<"pass">>)
        w2 == W_enter(w1)
        sh == PassShading(mat)
        w3 == W_iline(w2, <<"diffuse">> \o FmtAll(sh.diffuse))
        w4 == W_iline(w3, <<"specular">> \o FmtAll(sh.specular))
        w5 == W_nl(WriteProps(w4, mat.props))
        g5 == [g EXCEPT !.w = w5,
                        !.images = @ \cup {mat.textures[k].image : k \in 1..Len(mat.textures)}]
    IN  IF texnodes # <<>> /\ usermat.err = "None" THEN Raise(g5, "AttributeError")
        ELSE IF texnodes # <<>> /\ usermat.texture_units # <<>>
            THEN IF SlotRaises(usermat, texnodes) THEN Raise(g5, "NotImplementedError")
                 ELSE [g5 EXCEPT !.w = W_exit(w5)]
        ELSE [g5 EXCEPT !.w = W_exit(ImageUnits(w5, mat.textures))]

\* lines 134-138
RECURSIVE SubPasses(_, _, _)
SubPasses(g, passes, all) ==
    IF passes = <<>> THEN g
    ELSE SubPasses(IF Head(passes).use_in_ogre_material_pass
                   THEN generate_pass(g, Head(passes), all) ELSE g,
                   Tail(passes), all)

generate_passes(g, material, passes, all) ==
    SubPasses(generate_pass(g, material, all), passes, all)

\* lines 108-121: the text of the script, or the exception raised
generate(d, all, progs) ==
    LET g0 == NewGenerator
        w1 == W_nl(W_comment(g0.w, <<d.material.name, "generated", "by", "blender2ogre", "now">>))
        g1 == generate_header([g0 EXCEPT !.w = w1], d.passes, all, progs)
        w2 == W_enter(W_word(W_iword(g1.w, <<"material">>), material_name(d.material, "")))
        w3 == W_iline(w2, <<"receive_shadows",
                            IF d.material.shadow_method # "NONE" THEN "on" ELSE "off">>)
        w4 == W_enter(W_iword(w3, <<"technique">>))
        g4 == IF g1.err # NoErr THEN g1
              ELSE generate_passes([g1 EXCEPT !.w = w4], d.material, d.passes, all)
    IN  IF g4.err # NoErr THEN [err |-> g4.err, text |-> <<>>, images |-> g4.images]
        ELSE [err |-> NoErr, text |-> W_exit(W_exit(g4.w)).text, images |-> g4.images]

-----------------------------------------------------------------------------
(* SpecGen: parent scripts are scanned into the Registry, generate() runs  *)
(* on a Blender material with up to MaxSubs sub-materials, and the text it *)
(* returns is read back as a .material file.                               *)

MaxSubs == 1
MaxScans == 2

\* parent scripts: indented with a texture unit, written at column 0, and
\* indented with a program reference
ParentP == Shell(<<"P">>, TexUnit(<<"T1">>, <<IL(<<"texture", "a.png">>)>>))
ParentQ == <<L(<<"material", "Q">>), L(<<"{">>), L(<<"technique">>), L(<<"{">>),
             L(<<"pass">>), L(<<"{">>), L(<<"lighting", "off">>),
             L(<<"}">>), L(<<"}">>), L(<<"}">>)>>
ParentR == Shell(<<"R">>, <<IL(<<"vertex_program_ref", "V1">>), IL(<<"{">>), IL(<<"}">>)>>)
ParentFiles == {ParentP, ParentQ, ParentR}

TexBase == [key |-> "base_color_texture", extension |-> "REPEAT", color |-> <<0, 0, 0>>,
            image |-> [stem |-> "a", ext |-> "png", file_format |-> "PNG"]]
TexClip == [key |-> "emission_color_texture", extension |-> "CLIP", color |-> <<0, 0, 0>>,
            image |-> [stem |-> "b", ext |-> "jpg", file_format |-> "NONE"]]

Primaries ==
    {BMaterial("Mat", up[1], up[2], FALSE, tn, tx) :
        up \in {<<FALSE, "">>, <<TRUE, "P">>, <<TRUE, "Z">>},
        tn \in {<<>>, <<TRUE>>}, tx \in {<<>>, <<TexBase, TexClip>>}}
    \cup {[BMaterial("Mat#1", FALSE, "", FALSE, <<>>, <<>>) EXCEPT
              !.shadow_method = "NONE",
              !.props = <<[name |-> "ogre_depth_write", bool |-> TRUE, val |-> FALSE],
                          [name |-> "ogre_scene_blend", bool |-> FALSE, val |-> "add"]>>]}

SubMaterials ==
    { BMaterial("Sub", TRUE, "P", TRUE, <<>>, <<>>),
      BMaterial("Sub", TRUE, "Q", TRUE, <<FALSE>>, <<TexBase>>),
      BMaterial("Sub", TRUE, "R", FALSE, <<>>, <<>>),
      BMaterial("Sub", TRUE, "Z", TRUE, <<>>, <<TexBase>>),
      BMaterial("Sub", TRUE, "", TRUE, <<TRUE>>, <<>>),
      BMaterial("Sub", FALSE, "", TRUE, <<>>, <<TexBase>>) }

\* lines 94-106: the material and the materials of its MATERIAL_EXT nodes
Descriptions ==
    {[material |-> m, passes |-> ps] : m \in Primaries, ps \in SeqsUpTo(SubMaterials, MaxSubs)}

IdleDot == batch = <<>> /\ out = NoScripts /\ fs = NoScripts /\ copied = NoScripts

InitGen ==
    /\ pc = "scan"
    /\ npieces = 0
    /\ txt = <<>> /\ omat = NoObj
    /\ IdleFiles
    /\ IdleScan
    /\ PROGRAMS \in {{}, {"V1"}}
    /\ bmat \in Descriptions
    /\ gen = NoScripts
    /\ IdleDot

\* line 496, on a file that holds the parent script b
ScanFile(b) ==
    /\ pc = "scan"
    /\ npieces < MaxScans
    /\ npieces' = npieces + 1
    /\ file' = b
    /\ \E ms \in {MaterialScripts(url + 1, b, ALL_MATERIALS, ENUM_ITEMS, logged)} :
           /\ scripts' = ms
           /\ ALL_MATERIALS' = ms.all
           /\ ENUM_ITEMS' = ms.enum
           /\ logged' = ms.logged
           /\ history' = history \o ms.parsed
    /\ url' = url + 1
    /\ UNCHANGED <<scanVars, pc, forg, fmats, scriptVars, PROGRAMS, bmat, gen, batch, out, fs, copied>>

\* OgreMaterialGenerator(material, path).generate()
Generate ==
    /\ pc = "scan"
    /\ gen' = generate(bmat, ALL_MATERIALS, PROGRAMS)
    /\ pc' = "generated"
    /\ UNCHANGED <<scanVars, npieces, scriptVars, fileVars, regVars, PROGRAMS, bmat, batch, out, fs, copied>>

\* the text returned is written to a file and MaterialScripts reads it
ParseGenerated ==
    /\ pc = "generated"
    /\ gen.err = NoErr
    /\ file' = gen.text
    /\ \E ms \in {MaterialScripts(url + 1, gen.text, ALL_MATERIALS, ENUM_ITEMS, logged)} :
           /\ scripts' = ms
           /\ ALL_MATERIALS' = ms.all
           /\ ENUM_ITEMS' = ms.enum
           /\ logged' = ms.logged
           /\ history' = history \o ms.parsed
    /\ url' = url + 1
    /\ pc' = "parsed"
    /\ UNCHANGED <<scanVars, npieces, forg, fmats, scriptVars, PROGRAMS, bmat, gen, batch, out, fs, copied>>

NextGen ==
    \/ \E b \in ParentFiles : ScanFile(b)
    \/ Generate
    \/ ParseGenerated

SpecGen == InitGen /\ [][NextGen]_vars

\* the names of the named texture units in a text
EmittedUnits(text) ==
    {text[i].toks[2] : i \in {j \in 1..Len(text) :
        StartsWith(text[j].toks, "texture_unit") /\ Len(text[j].toks) > 1}}

\* the passes that generate_passes emits
EmittedPasses(d) ==
    <<d.material>> \o SelectSeq(d.passes, LAMBDA m : m.use_in_ogre_material_pass)

\* C5 (as claimed): the text that generate() returned reads back as exactly
\* one definition, under the generator's material name, with one technique,
\* with the passes the generator emitted and with the named texture units
\* it emitted
C5_RoundTrip ==
    pc = "parsed" =>
        /\ scripts.err = NoErr
        /\ Len(scripts.parsed) = 1
        /\ scripts.parsed[1].name = material_name(bmat.material, "")
        /\ Len(scripts.parsed[1].techniques) = 1
        /\ Len(scripts.parsed[1].passes) = Len(EmittedPasses(bmat))
        /\ DictKeys(scripts.parsed[1].texture_units) = EmittedUnits(gen.text)

\* a material that enables a parent material that the Registry lacks
MissingParent(mat) ==
    mat.use_ogre_parent_material /\ ~DictHas(ALL_MATERIALS, mat.ogre_parent_material)

AllMaterials(d) == <<d.material>> \o d.passes

LinesWith(text, kw) == {i \in 1..Len(text) : StartsWith(text[i].toks, kw)}

RECURSIVE CountTextures(_)
CountTextures(ms) ==
    IF ms = <<>> THEN 0 ELSE Len(Head(ms).textures) + CountTextures(Tail(ms))

\* C10 (as claimed), for the materials whose enabled parents are all absent
\* from the Registry: generate() returns, and its text has no user material
\* comment, no abstract pass, only plain pass lines, and a texture unit for
\* every image binding of the passes it emits
C10_MissingParentFallsBack ==
    (/\ pc = "generated"
     /\ \E k \in 1..Len(AllMaterials(bmat)) : MissingParent(AllMaterials(bmat)[k])
     /\ \A k \in 1..Len(AllMaterials(bmat)) :
           AllMaterials(bmat)[k].use_ogre_parent_material
               => MissingParent(AllMaterials(bmat)[k]))
    => /\ gen.err = NoErr
       /\ \A i \in 1..Len(gen.text) :
             /\ ~StartsWith(gen.text[i].cmt, "user")
             /\ ~StartsWith(gen.text[i].toks, "abstract")
             /\ StartsWith(gen.text[i].toks, "pass") => gen.text[i].toks = <<"pass">>
       /\ Cardinality(LinesWith(gen.text, "texture_unit")) = CountTextures(EmittedPasses(bmat))

-----------------------------------------------------------------------------
(* SpecPass: generate() on materials of varied colour, metallic, roughness *)
(* and blend mode, alone or with one sub-material pass.                    *)

Colours == {<<100, 0, 0, 100>>, <<50, 100, 0, 50>>, <<80, 80, 80, 0>>}
Metallics == {0, 2, 50, 100}
Roughnesses == {0, 50, 100}

Shaded(name, c, m, r, b) ==
    [BMaterial(name, FALSE, "", TRUE, <<>>, <<>>) EXCEPT
        !.diffuse_color = c, !.metallic = m, !.roughness = r, !.blend_method = b]

ShadedDescriptions ==
    {[material |-> Shaded("Mat", c, m, r, b), passes |-> ps] :
        c \in Colours, m \in Metallics, r \in Roughnesses, b \in {"OPAQUE", "BLEND"},
        ps \in {<<>>, <<Shaded("Sub", <<50, 100, 0, 50>>, 2, 50, "HASHED")>>}}

InitPass ==
    /\ pc = "scan"
    /\ npieces = 0
    /\ txt = <<>> /\ omat = NoObj
    /\ IdleFiles
    /\ IdleScan
    /\ PROGRAMS = {}
    /\ bmat \in ShadedDescriptions
    /\ gen = NoScripts
    /\ IdleDot

NextPass == Generate

SpecPass == InitPass /\ [][NextPass]_vars

\* the lines of a text that start with kw, in order
LinesOf(text, kw) == SelectSeq(text, LAMBDA l : StartsWith(l.toks, kw))

Max(a, b) == IF a > b THEN a ELSE b

\* what the claim says of a material, in millionths
ClaimedDiffuse(mat) ==
    [k \in 1..3 |-> mat.diffuse_color[k] * (100 - mat.metallic) * 100]
ClaimedSpecular(mat) ==
    [k \in 1..3 |-> (mat.diffuse_color[k] * Max(4, mat.metallic)
                     + (100 - Max(4, mat.metallic)) * (100 - mat.roughness)) * 100]
ClaimedShininess(mat) == (100 - mat.roughness) * 128 * 10000
ClaimedAlpha(mat) ==
    IF mat.blend_method = "OPAQUE" THEN One ELSE mat.diffuse_color[4] * 10000

\* C8: every pass that generate() emits carries the diffuse line c*(1-m)
\* with the claimed alpha and the specular line c*mf + (1-mf)*(1-r),
\* mf = max(0.04, m), with the same alpha and the shininess (1-r)*128; for
\* m = 1, r = 0, c = (1,0,0,1) these are 0 0 0 1 and 1 0 0 1 128
C8_PassShading ==
    pc = "generated" =>
        /\ gen.err = NoErr
        /\ Len(LinesOf(gen.text, "diffuse")) = Len(EmittedPasses(bmat))
        /\ Len(LinesOf(gen.text, "specular")) = Len(EmittedPasses(bmat))
        /\ \A k \in 1..Len(EmittedPasses(bmat)) :
              LET mat == EmittedPasses(bmat)[k]
              IN  /\ LinesOf(gen.text, "diffuse")[k].toks =
                        <<"diffuse">> \o FmtAll(ClaimedDiffuse(mat))
                                      \o <<Fmt(ClaimedAlpha(mat))>>
                  /\ LinesOf(gen.text, "specular")[k].toks =
                        <<"specular">> \o FmtAll(ClaimedSpecular(mat))
                                       \o <<Fmt(ClaimedAlpha(mat)), Fmt(ClaimedShininess(mat))>>
        /\ (/\ bmat.material.metallic = 100 /\ bmat.material.roughness = 0
            /\ bmat.material.diffuse_color = <<100, 0, 0, 100>>)
           => /\ LinesOf(gen.text, "diffuse")[1].toks = <<"diffuse", "0.0", "0.0", "0.0", "1.0">>
              /\ LinesOf(gen.text, "specular")[1].toks =
                    <<"specular", "1.0", "0.0", "0.0", "1.0", "128.0">>

C8_Witness ==
    /\ pc = "generated"
    /\ gen.err = NoErr
    /\ bmat.material.metallic = 100 /\ bmat.material.roughness = 0
    /\ bmat.material.diffuse_color = <<100, 0, 0, 100>>
    /\ bmat.material.blend_method = "BLEND"
    /\ Len(bmat.passes) = 1
    /\ LinesOf(gen.text, "specular")[2].toks =
          <<"specular", "0.5", "0.52", "0.48", "0.5", "64.0">>

-----------------------------------------------------------------------------
(* copy_texture.  fs holds the image (packed_file, and the size of the     *)
(* packed data), its source file and the file of its name in the target    *)
(* directory; a file is NoFile or has a size and a modification time.      *)

AFile(size, mtime) == [exists |-> TRUE, size |-> size, mtime |-> mtime]

\* copy_texture that compares the sizes only
copy_textureSizeOnly(f, now) ==
    IF f.image.packed_file
    THEN [fs |-> [f EXCEPT !.dst = AFile(f.image.size, now)], did |-> "copy"]
    ELSE IF f.dst.exists /\ ~f.src.exists
        THEN [fs |-> f, did |-> "FileNotFoundError"]
    ELSE LET update == IF f.dst.exists
                       THEN f.dst.size # f.src.size
                       ELSE TRUE
         IN  IF ~update THEN [fs |-> f, did |-> "skip"]
             ELSE IF ~f.src.exists THEN [fs |-> f, did |-> "FileNotFoundError"]
             ELSE [fs |-> [f EXCEPT !.dst = f.src], did |-> "copy"]

\* copy_texture with a copy that gives the target the time of the copy
\* instead of the source's modification time
copy_textureNoMetadata(f, now) ==
    IF f.image.packed_file
    THEN [fs |-> [f EXCEPT !.dst = AFile(f.image.size, now)], did |-> "copy"]
    ELSE IF f.dst.exists /\ ~f.src.exists
        THEN [fs |-> f, did |-> "FileNotFoundError"]
    ELSE LET update == IF f.dst.exists
                       THEN f.dst.size # f.src.size \/ f.dst.mtime # f.src.mtime
                       ELSE TRUE
         IN  IF ~update THEN [fs |-> f, did |-> "skip"]
             ELSE IF ~f.src.exists THEN [fs |-> f, did |-> "FileNotFoundError"]
             ELSE [fs |-> [f EXCEPT !.dst = AFile(f.src.size, now)], did |-> "copy"]

\* lines 347-378: the files afterwards and what was done; now is the time
\* at which image.save() writes
copy_texture(f, now) ==
    IF f.image.packed_file
    THEN [fs |-> [f EXCEPT !.dst = AFile(f.image.size, now)], did |-> "copy"]
    ELSE IF f.dst.exists /\ ~f.src.exists
        THEN [fs |-> f, did |-> "FileNotFoundError"]
    ELSE LET update == IF f.dst.exists
                       THEN f.dst.size # f.src.size \/ f.dst.mtime # f.src.mtime
                       ELSE TRUE
         IN  IF ~update THEN [fs |-> f, did |-> "skip"]
             ELSE IF ~f.src.exists THEN [fs |-> f, did |-> "FileNotFoundError"]
             ELSE [fs |-> [f EXCEPT !.dst = f.src], did |-> "copy"]

-----------------------------------------------------------------------------
(* SpecCopy: up to MaxCopies calls of copy_texture on one image, from any  *)
(* state of its two files; between the calls the source file may be        *)
(* rewritten up to MaxTouches times.  copied is the history of the image:  *)
(* the outcome of every call, and "touch" for every rewrite.               *)

MaxCopies == 3
MaxTouches == 1

Sizes == {1, 2}
Times == {1, 2, 3}
Files == {NoFile} \cup {AFile(sz, t) : sz \in Sizes, t \in Times}
Images == {[packed_file |-> FALSE, size |-> 0], [packed_file |-> TRUE, size |-> 1]}

InitCopy ==
    /\ pc = "copy"
    /\ npieces = 0
    /\ txt = <<>> /\ omat = NoObj
    /\ IdleFiles
    /\ IdleScan
    /\ PROGRAMS = {} /\ bmat = NoScripts /\ gen = NoScripts
    /\ batch = <<>> /\ out = NoScripts
    /\ fs \in [image : Images, src : Files, dst : Files]
    /\ copied = <<>>

CopyTexture(now) ==
    /\ pc = "copy"
    /\ npieces < MaxCopies
    /\ npieces' = npieces + 1
    /\ \E r \in {copy_texture(fs, now)} :
           /\ fs' = r.fs
           /\ copied' = Append(copied, r.did)
    /\ UNCHANGED <<scanVars, pc, scriptVars, fileVars, regVars, PROGRAMS, bmat, gen, batch, out>>

\* the source file is rewritten from outside: its size or its modification
\* time changes
TouchSource(f) ==
    /\ pc = "copy"
    /\ fs.src.exists /\ f.exists /\ f # fs.src
    /\ Cardinality({i \in 1..Len(copied) : copied[i] = "touch"}) < MaxTouches
    /\ fs' = [fs EXCEPT !.src = f]
    /\ copied' = Append(copied, "touch")
    /\ UNCHANGED <<scanVars, pc, npieces, scriptVars, fileVars, regVars, PROGRAMS, bmat, gen, batch, out>>

NextCopy ==
    \/ \E now \in Times : CopyTexture(now)
    \/ \E f \in Files : TouchSource(f)

SpecCopy == InitCopy /\ [][NextCopy]_vars

\* the target is missing or differs from the source in size or time
Outdated(f) ==
    \/ ~f.dst.exists
    \/ f.dst.size # f.src.size
    \/ f.dst.mtime # f.src.mtime

\* C6: a call of copy_texture for an image that is not packed and whose
\* source file exists copies the source onto the target exactly when the
\* target is missing or differs in size or in modification time, and
\* otherwise writes nothing and logs the skip; for a packed image it always
\* writes the target
C6_CopyDecision ==
    [][npieces' = npieces + 1 =>
          IF fs.image.packed_file
          THEN /\ Last(copied') = "copy"
               /\ fs'.dst.exists /\ fs'.dst.size = fs.image.size
          ELSE fs.src.exists =>
                  /\ Last(copied') = "copy" <=> Outdated(fs)
                  /\ Last(copied') = "copy" => fs'.dst = fs.src
                  /\ Last(copied') # "copy" => Last(copied') = "skip" /\ fs' = fs]_vars

\* a call that copied, followed by a call that skipped
C6_Witness ==
    /\ copied = <<"copy", "skip">>
    /\ ~fs.image.packed_file
    /\ fs.dst = fs.src

-----------------------------------------------------------------------------
(* dot_materials and dot_material.  The materials of a batch share the one *)
(* image whose files fs holds.  A result o holds the exception that ended  *)
(* the call (NoErr: none), the files written so far as <<name, lines>>,    *)
(* Report.materials, the image files and what copy_texture did.            *)

MISSING_MATERIAL ==
    <<L(<<>>), L(<<"material", "_missing_material_">>), L(<<"{">>),
      IL(<<"receive_shadows", "off">>), IL(<<"technique">>), IL(<<"{">>),
      IL(<<"pass">>), IL(<<"{">>),
      IL(<<"ambient", "0.1", "0.1", "0.1", "1.0">>),
      IL(<<"diffuse", "0.8", "0.0", "0.0", "1.0">>),
      IL(<<"specular", "0.5", "0.5", "0.5", "1.0", "12.5">>),
      IL(<<"emissive", "0.3", "0.3", "0.3", "1.0">>),
      IL(<<"}">>), IL(<<"}">>), L(<<"}">>)>>

\* lines 380-386 and 388-393: the exception of copy_programs, if any; what
\* prog.save writes is not followed
copy_programs(d, all) ==
    IF \E k \in 1..Len(d.passes) :
          /\ d.passes[k].use_ogre_parent_material
          /\ d.passes[k].ogre_parent_material # ""
          /\ ~DictHas(all, d.passes[k].ogre_parent_material)
    THEN "AttributeError" ELSE NoErr

\* lines 343-345
copy_textures(images, f, now) ==
    IF images = {} THEN [fs |-> f, did |-> "none"] ELSE copy_texture(f, now)

\* lines 44-51 and 70-76: generate(), copy_programs(), copy_textures()
GenerateAndCopy(o, d, kw, all, progs, now) ==
    Bind(generate(d, all, progs), LAMBDA g :
        LET cp == IF kw.copy_programs THEN copy_programs(d, all) ELSE NoErr
            ct == IF kw.touch_textures THEN copy_textures(g.images, o.fs, now)
                  ELSE [fs |-> o.fs, did |-> "none"]
        IN  IF g.err # NoErr THEN [o EXCEPT !.err = g.err]
            ELSE IF cp # NoErr THEN [o EXCEPT !.err = cp]
            ELSE IF ct.did \notin {"none", "copy", "skip"}
                THEN [o EXCEPT !.err = ct.did, !.copied = Append(@, ct.did)]
            ELSE [o EXCEPT !.fs = ct.fs, !.text = g.text,
                           !.copied = IF ct.did = "none" THEN @ ELSE Append(@, ct.did)])

\* lines 58-80: one material into a file of its own
dot_material(o, mat, kw, all, progs, now) ==
    IF mat = None THEN [o EXCEPT !.err = "AttributeError"]
    ELSE Bind(GenerateAndCopy(o, mat, kw, all, progs, now), LAMBDA o1 :
             IF o1.err # NoErr THEN o1
             ELSE [o1 EXCEPT !.files = Append(@, <<material_name(mat.material, ""), o1.text>>)])

\* lines 40-52: one turn of the loop of the combined file
CombinedStep(o, mat, kw, all, progs, now) ==
    IF mat = None THEN [o EXCEPT !.include_missing = TRUE]
    ELSE Bind(GenerateAndCopy([o EXCEPT !.report = Append(@, material_name(mat.material, ""))],
                              mat, kw, all, progs, now),
              LAMBDA o1 : IF o1.err # NoErr THEN o1
                          ELSE [o1 EXCEPT !.files[1][2] = @ \o o1.text \o <<L(<<>>)>>])

\* lines 34-35 and 40-52: the loop over the batch.  Line 35 hands no keyword
\* on to dot_material, whose flags then come from the configuration: in
\* separate mode kw stands for the configured values
RECURSIVE DotLoop(_, _, _, _, _, _, _)
DotLoop(o, materials, separate, kw, all, progs, now) ==
    IF materials = <<>> \/ o.err # NoErr THEN o
    ELSE Bind(IF separate THEN dot_material(o, Head(materials), kw, all, progs, now)
              ELSE CombinedStep(o, Head(materials), kw, all, progs, now),
              LAMBDA o1 : DotLoop(o1, Tail(materials), separate, kw, all, progs, now))

\* lines 19-56
dot_materials(materials, separate, kw, all, progs, f, now) ==
    LET o0 == [err |-> NoErr, files |-> <<>>, report |-> <<>>, fs |-> f, copied |-> <<>>,
               text |-> <<>>, include_missing |-> FALSE, separate |-> separate]
    IN  IF materials = <<>> THEN o0
        ELSE IF separate THEN DotLoop(o0, materials, TRUE, kw, all, progs, now)
        ELSE Bind(DotLoop([o0 EXCEPT !.files = <<<<"mats", <<>>>>>>],
                          materials, FALSE, kw, all, progs, now),
                  LAMBDA o1 : IF o1.err = NoErr /\ o1.include_missing
                              THEN [o1 EXCEPT !.files[1][2] = @ \o MISSING_MATERIAL \o <<L(<<>>)>>]
                              ELSE o1)

-----------------------------------------------------------------------------
(* SpecDot: a batch of up to MaxBatch materials and absent references is   *)
(* put together and handed to dot_materials, with an empty Registry.       *)

MaxBatch == 3

DescA == [material |-> BMaterial("A", FALSE, "", FALSE, <<>>, <<TexBase>>), passes |-> <<>>]
DescB == [material |-> BMaterial("B", FALSE, "", FALSE, <<>>, <<>>), passes |-> <<>>]
DescZ == [material |-> BMaterial("Mat", FALSE, "", FALSE, <<>>, <<>>),
          passes |-> <<BMaterial("Sub", TRUE, "Z", TRUE, <<>>, <<>>)>>]
BatchItems == {None, DescA, DescB, DescZ}

InitDot ==
    /\ pc = "collect"
    /\ npieces = 0
    /\ txt = <<>> /\ omat = NoObj
    /\ IdleFiles
    /\ IdleScan
    /\ PROGRAMS = {} /\ bmat = NoScripts /\ gen = NoScripts
    /\ batch = <<>>
    /\ out = NoScripts
    /\ fs \in [image : {[packed_file |-> FALSE, size |-> 0]},
               src : {NoFile, AFile(1, 1)}, dst : {NoFile, AFile(1, 1)}]
    /\ copied = <<>>

AddMaterial(m) ==
    /\ pc = "collect"
    /\ Len(batch) < MaxBatch
    /\ batch' = Append(batch, m)
    /\ UNCHANGED <<scanVars, pc, npieces, scriptVars, fileVars, regVars, PROGRAMS, bmat, gen, out, fs,
                   copied>>

DotMaterials(separate, kw) ==
    /\ pc = "collect"
    /\ \E o \in {dot_materials(batch, separate, kw, ALL_MATERIALS, PROGRAMS, fs, 2)} :
           /\ out' = o
           /\ fs' = o.fs
           /\ copied' = o.copied
    /\ pc' = "written"
    /\ UNCHANGED <<scanVars, npieces, scriptVars, fileVars, regVars, PROGRAMS, bmat, gen, batch>>

NextDot ==
    \/ \E m \in BatchItems : AddMaterial(m)
    \/ \E separate \in BOOLEAN, cp \in BOOLEAN, tt \in BOOLEAN :
          DotMaterials(separate, [copy_programs |-> cp, touch_textures |-> tt])

SpecDot == InitDot /\ [][NextDot]_vars

\* the numbers of the lines of a text that open the material called name
HeadersOf(text, name) == {i \in 1..Len(text) : text[i].toks = <<"material", name>>}

Present(materials) == SelectSeq(materials, LAMBDA m : m # None)

\* C9 (as claimed): the combined file of a batch holds the
\* _missing_material_ block once if the batch has an absent reference and
\* not at all if it has none, after the text of every generated material,
\* and holds no material for an absent reference
C9_MissingBlockOnce ==
    (pc = "written" /\ ~out.separate /\ batch # <<>>) =>
        LET text == out.files[1][2]
            missing == HeadersOf(text, "_missing_material_")
        IN  /\ Cardinality(missing) = IF \E k \in 1..Len(batch) : batch[k] = None THEN 1 ELSE 0
            /\ \A i \in LinesWith(text, "material") : \A j \in missing : i <= j
            /\ Cardinality(LinesWith(text, "material") \ missing) <= Len(Present(batch))

\* what is left of C9: a call that raises nothing writes the block as
\* claimed, and a material for every reference that is present
C9_WhenNothingRaises ==
    (pc = "written" /\ ~out.separate /\ batch # <<>> /\ out.err = NoErr) =>
        LET text == out.files[1][2]
            missing == HeadersOf(text, "_missing_material_")
        IN  /\ Cardinality(missing) = IF \E k \in 1..Len(batch) : batch[k] = None THEN 1 ELSE 0
            /\ \A i \in LinesWith(text, "material") : \A j \in missing : i <= j
            /\ Cardinality(LinesWith(text, "material") \ missing) = Len(Present(batch))

-----------------------------------------------------------------------------
(* parse_material_and_program_scripts: the scan of a directory tree *)

\* line.split('//')[0]: the line without its comment, indentation kept
StripComment(l) == [l EXCEPT !.cmt = <<>>]

\* lines 503-508: one line of the .program chunking loop; the last of
\* chunks is the chunk being filled
ProgramChopStep(chunks, raw) ==
    LET line == StripComment(raw)
        n == Len(chunks)
    IN  IF ~line.ind /\ StartsWith(line.toks, "}")
        THEN Append([chunks EXCEPT ![n] = Append(@, line)], <<>>)
        ELSE IF line.toks # <<>>
            THEN [chunks EXCEPT ![n] = Append(@, line)]
        ELSE chunks

RECURSIVE ProgramChopRange(_, _, _)
ProgramChopRange(chunks, data, i) ==
    IF i > Len(data) THEN chunks
    ELSE Bind(ProgramChopStep(chunks, data[i]),
              LAMBDA c : ProgramChopRange(c, data, i + 1))

\* lines 500-508: the chunks of a .program file, the empty ones included
ProgramChunks(data) == ProgramChopRange(<<<<>>>>, data, 1)

\* the shader source files that can be loaded
SHADER_SOURCES == {"vp.cg", "fp.cg", "vt.cg"}

\* OgreProgram(data=...): the name after the program keyword of the first
\* line, and the source reference of the chunk, "" when it has none
OgreProgram(chk) ==
    LET srcs == SelectSeq(chk, LAMBDA l : StartsWith(l.toks, "source") /\ Len(l.toks) > 1)
    IN  [name |-> IF Len(chk[1].toks) > 1 THEN chk[1].toks[2] ELSE "",
         source |-> IF srcs = <<>> THEN "" ELSE Last(Last(srcs).toks),
         data |-> chk]

\* p.reload(): whether the source file of the program loads
reload(p) == p.source \in SHADER_SOURCES

\* lines 509-516: the chunks become programs, active or missing
RECURSIVE ProgramLoop(_, _)
ProgramLoop(r, chunks) ==
    IF chunks = <<>> THEN r
    ELSE IF Head(chunks) = <<>> THEN ProgramLoop(r, Tail(chunks))
    ELSE Bind(OgreProgram(Head(chunks)), LAMBDA p :
             Bind(IF p.source = "" THEN r
                  ELSE IF ~reload(p) THEN [r EXCEPT !.missing = Append(@, p)]
                  ELSE [r EXCEPT !.progs = Append(@, p),
                                 !.programs = @ \cup {p.name}],
                  LAMBDA r1 : ProgramLoop(r1, Tail(chunks))))

\* the entries of a directory
Folder(entries) == [kind |-> "dir", data |-> <<>>, entries |-> entries]
MaterialFile(data) == [kind |-> "material", data |-> data, entries |-> <<>>]
ProgramFile(data) == [kind |-> "program", data |-> data, entries |-> <<>>]
OtherFile == [kind |-> "other", data |-> <<>>, entries |-> <<>>]

\* lines 495-496: a .material file; an exception of MaterialScripts leaves
\* the scan with what the file had registered until then
ScanMaterialFile(r, data) ==
    Bind(MaterialScripts(r.url + 1, data, r.all, r.enum, r.logged), LAMBDA ms :
        [r EXCEPT !.err = ms.err, !.url = @ + 1, !.nfiles = @ + 1,
                  !.all = ms.all, !.enum = ms.enum, !.logged = ms.logged,
                  !.history = @ \o ms.parsed,
                  !.scripts = IF ms.err = NoErr THEN Append(@, DictKeys(ms.materials))
                              ELSE @])

\* lines 498-516: a .program file
ScanProgramFile(r, data) ==
    Bind(ProgramChunks(data), LAMBDA chunks :
        ProgramLoop([r EXCEPT !.nfiles = @ + 1,
                              !.chunked = Append(@, <<data, chunks>>)], chunks))

\* lines 487-516: the loop over os.listdir(path), depth first; an exception
\* ends every loop
RECURSIVE parse_material_and_program_scripts(_, _)
parse_material_and_program_scripts(r, entries) ==
    IF entries = <<>> \/ r.err # NoErr THEN r
    ELSE LET e == Head(entries)
         IN  Bind(IF e.kind = "dir" THEN parse_material_and_program_scripts(r, e.entries)
                  ELSE IF e.kind = "material" THEN ScanMaterialFile(r, e.data)
                  ELSE IF e.kind = "program" THEN ScanProgramFile(r, e.data)
                  ELSE r,
                  LAMBDA r1 : parse_material_and_program_scripts(r1, Tail(entries)))

\* lines 715-729: update_parent_material_path on a tree, with the class
\* attributes as they are
update_parent_material_path(entries, all, enum, log, programs) ==
    parse_material_and_program_scripts(
        [err |-> NoErr, scripts |-> <<>>, progs |-> <<>>, missing |-> <<>>,
         url |-> 0, nfiles |-> 0, chunked |-> <<>>, history |-> <<>>,
         all |-> all, enum |-> enum, logged |-> log, programs |-> programs],
        entries)

-----------------------------------------------------------------------------
(* SpecScan: a directory of up to MaxEntries entries is put together and   *)
(* scanned once.                                                           *)

MaxEntries == 3

ProgNoSource == <<L(<<"vertex_program", "NS", "cg">>), L(<<"{">>),
                  IL(<<"entry_point", "main">>), L(<<"}">>)>>
ProgGone == <<L(<<"fragment_program", "FG", "cg">>), L(<<"{">>),
              Ln(TRUE, <<"source", "gone.cg">>, <<"lost">>), Ln(FALSE, <<"}">>, <<"end">>)>>
ProgBraceText == <<L(<<"vertex_program", "VT", "cg">>), L(<<"{">>),
                   IL(<<"source", "vt.cg">>), IL(<<"default_params">>), IL(<<"{">>),
                   L(<<"}", "}">>)>>

DirEntries ==
    { MaterialFile(MatA),
      MaterialFile(MatB \o MatOpen),
      ProgramFile(ProgFlat \o <<L(<<>>)>> \o ProgNoSource),
      ProgramFile(ProgGone \o ProgFlat),
      ProgramFile(ProgIndented \o ProgFlat),
      ProgramFile(ProgBraceText \o ProgFlat),
      Folder(<<ProgramFile(ProgFlat), MaterialFile(MatA2)>>),
      OtherFile }

InitScan ==
    /\ pc = "list"
    /\ npieces = 0
    /\ txt = <<>> /\ omat = NoObj
    /\ IdleFiles
    /\ IdleGen
    /\ dir = <<>>
    /\ scan = NoScripts

AddEntry(e) ==
    /\ pc = "list"
    /\ Len(dir) < MaxEntries
    /\ dir' = Append(dir, e)
    /\ UNCHANGED <<pc, npieces, scriptVars, fileVars, regVars, genVars, scan>>

ScanDirectory ==
    /\ pc = "list"
    /\ \E r \in {update_parent_material_path(dir, ALL_MATERIALS, ENUM_ITEMS, logged, PROGRAMS)} :
           /\ scan' = [err |-> r.err, scripts |-> r.scripts, progs |-> r.progs,
                       missing |-> r.missing, nfiles |-> r.nfiles, chunked |-> r.chunked]
           /\ ALL_MATERIALS' = r.all
           /\ ENUM_ITEMS' = r.enum
           /\ logged' = r.logged
           /\ history' = history \o r.history
           /\ url' = r.url
           /\ PROGRAMS' = r.programs
    /\ pc' = "scanned"
    /\ UNCHANGED <<npieces, scriptVars, file, forg, fmats, scripts, bmat, gen, batch, out, fs,
                   copied, dir>>

NextScan ==
    \/ \E e \in DirEntries : AddEntry(e)
    \/ ScanDirectory

SpecScan == InitScan /\ [][NextScan]_vars

-----------------------------------------------------------------------------
(* Properties of SpecScan *)

Range(s) == {s[i] : i \in 1..Len(s)}

\* the files of a tree in the order of the scan
RECURSIVE FilesOf(_)
FilesOf(entries) ==
    IF entries = <<>> THEN <<>>
    ELSE LET e == Head(entries)
         IN  (IF e.kind = "dir" THEN FilesOf(e.entries)
              ELSE IF e.kind = "other" THEN <<>> ELSE <<e>>) \o FilesOf(Tail(entries))

\* the programs of the non-empty chunks of the .program files among files
ProgramsIn(files) ==
    UNION {{OgreProgram(c) : c \in {ch \in Range(ProgramChunks(files[k].data)) : ch # <<>>}} :
              k \in {j \in 1..Len(files) : files[j].kind = "program"}}

\* where a program stands after a scan: in the active list exactly when it
\* has a source that loads, in the missing list exactly when it has a source
\* that does not, and with no source in neither
ListedAsItLoads(p) ==
    LET active == \E i \in 1..Len(scan.progs) : scan.progs[i] = p
        missing == \E i \in 1..Len(scan.missing) : scan.missing[i] = p
    IN  /\ active <=> (p.source # "" /\ reload(p))
        /\ missing <=> (p.source # "" /\ ~reload(p))

\* C13: after a directory scan every program of every .program file of the
\* tree stands in the list its source and its reload check call for
C13_ProgramsListed ==
    pc = "scanned" => \A p \in ProgramsIn(FilesOf(dir)) : ListedAsItLoads(p)

\* what holds of the two lists: the programs of the files the scan got to
\* are listed as claimed, a failed reload among them notwithstanding
C13_VisitedProgramsListed ==
    pc = "scanned" =>
        \A p \in ProgramsIn(SubSeq(FilesOf(dir), 1, scan.nfiles)) : ListedAsItLoads(p)

\* the definitions of the chunks of a .material file, each constructed alone
DefinitionsOf(f) ==
    LET mats == Chop(f.data)
    IN  [i \in 1..Len(mats) |-> OgreMaterialScript(ChunkText(f.data, mats[i]), 0)]

Sound(f) == \A i \in 1..Len(DefinitionsOf(f)) : DefinitionsOf(f)[i].err = NoErr

\* C14: a chunk that fails to parse costs its own file at most: after the
\* scan every definition of every .material file of the tree in which no
\* chunk fails is in the Registry
C14_FailureStaysInFile ==
    pc = "scanned" =>
        \A k \in 1..Len(FilesOf(dir)) :
            LET f == FilesOf(dir)[k]
            IN  (f.kind = "material" /\ Sound(f)) =>
                    \A i \in 1..Len(DefinitionsOf(f)) :
                        DictHas(ALL_MATERIALS, DefinitionsOf(f)[i].name)

\* what the code does instead: the scan ends in the file of the failing
\* chunk, the files after it are not opened, and the Registry keeps the
\* definitions of the sound files before it
C14_ScanStopsAtFailure ==
    (pc = "scanned" /\ scan.err # NoErr) =>
        LET files == FilesOf(dir)
        IN  /\ scan.nfiles \in 1..Len(files)
            /\ files[scan.nfiles].kind = "material" /\ ~Sound(files[scan.nfiles])
            /\ \A k \in 1..(scan.nfiles - 1) :
                  files[k].kind = "material" =>
                      /\ Sound(files[k])
                      /\ \A i \in 1..Len(DefinitionsOf(files[k])) :
                            DictHas(ALL_MATERIALS, DefinitionsOf(files[k])[i].name)
            /\ DictKeys(ALL_MATERIALS) \subseteq
                  UNION {{DefinitionsOf(files[k])[i].name : i \in 1..Len(DefinitionsOf(files[k]))} :
                            k \in {j \in 1..scan.nfiles : files[j].kind = "material"}}

\* the chunking as claimed: a chunk closes at the lines whose code, without
\* comment and white space, is '}'
ClaimedChopStep(chunks, raw) ==
    LET line == StripComment(raw)
        n == Len(chunks)
    IN  IF line.toks = <<"}">>
        THEN Append([chunks EXCEPT ![n] = Append(@, line)], <<>>)
        ELSE IF line.toks # <<>>
            THEN [chunks EXCEPT ![n] = Append(@, line)]
        ELSE chunks

RECURSIVE ClaimedChopRange(_, _, _)
ClaimedChopRange(chunks, data, i) ==
    IF i > Len(data) THEN chunks
    ELSE ClaimedChopRange(ClaimedChopStep(chunks, data[i]), data, i + 1)

NonEmpty(chunks) == SelectSeq(chunks, LAMBDA c : c # <<>>)

RECURSIVE Concat(_)
Concat(ss) == IF ss = <<>> THEN <<>> ELSE Head(ss) \o Concat(Tail(ss))

\* C18: the non-empty chunks of every .program file read are those that
\* close at the lines whose code is '}' alone, indented or not
C18_ChunksCloseAtBrace ==
    pc = "scanned" =>
        \A k \in 1..Len(scan.chunked) :
            NonEmpty(scan.chunked[k][2])
                = NonEmpty(ClaimedChopRange(<<<<>>>>, scan.chunked[k][1], 1))

\* the halves of C18 one by one: an indented '}' closes its chunk
C18_IndentedBraceCloses ==
    pc = "scanned" =>
        \A k \in 1..Len(scan.chunked) :
            \A c \in Range(scan.chunked[k][2]) :
                \A i \in 1..(Len(c) - 1) : c[i].toks # <<"}">>

\* and a line starting with '}' that goes on does not
C18_BraceWithTextStaysOpen ==
    pc = "scanned" =>
        \A k \in 1..Len(scan.chunked) :
            \A c \in Range(scan.chunked[k][2]) :
                (c # <<>> /\ StartsWith(Last(c).toks, "}")) => Last(c).toks = <<"}">>

\* what holds of the chunking: the chunks are the lines of the file that
\* have code, without their comments, each once and in file order
C18_ChunksPartitionFile ==
    pc = "scanned" =>
        \A k \in 1..Len(scan.chunked) :
            Concat(scan.chunked[k][2])
                = SelectSeq([i \in 1..Len(scan.chunked[k][1]) |->
                                StripComment(scan.chunked[k][1][i])],
                            LAMBDA l : l.toks # <<>>)

-----------------------------------------------------------------------------
(* Further properties of SpecGen *)

\* the names of the named texture units of a text, in order
NamedUnitLines(text) ==
    LET ls == SelectSeq(text, LAMBDA l : StartsWith(l.toks, "texture_unit") /\ Len(l.toks) > 1)
    IN  [i \in 1..Len(ls) |-> ls[i].toks[2]]

\* the slot names that the positional binding fills: slot i of the parent,
\* for every i below both counts whose binding carries a texture
RECURSIVE FilledSlots(_, _, _)
FilledSlots(order, texnodes, i) ==
    IF i > Len(order) \/ i > Len(texnodes) THEN <<>>
    ELSE (IF texnodes[i] THEN <<order[i]>> ELSE <<>>) \o FilledSlots(order, texnodes, i + 1)

\* C11 (as claimed): for a material without sub-materials whose parent is in
\* the Registry and defines named texture-unit slots, generate() returns and
\* its text holds one named texture_unit per filled slot, the i-th binding
\* under the i-th slot name, and none beyond either count
C11_SlotsBoundByPosition ==
    (/\ pc = "generated"
     /\ bmat.passes = <<>>
     /\ bmat.material.use_ogre_parent_material
     /\ DictHas(ALL_MATERIALS, bmat.material.ogre_parent_material)
     /\ DictGet(ALL_MATERIALS, bmat.material.ogre_parent_material).texture_units # <<>>)
    => /\ gen.err = NoErr
       /\ NamedUnitLines(gen.text) =
             FilledSlots(DictGet(ALL_MATERIALS, bmat.material.ogre_parent_material).texture_units_order,
                         bmat.material.texnodes, 1)

\* the materials of a description that enable a parent that the Registry has
WithParent(d) ==
    SelectSeq(AllMaterials(d),
              LAMBDA m : m.use_ogre_parent_material /\ DictHas(ALL_MATERIALS, m.ogre_parent_material))

\* the first line of a text, from line lo on, that starts with kw (0: none)
FirstLine(text, kw, lo) ==
    IF \E i \in lo..Len(text) : StartsWith(text[i].toks, kw)
    THEN CHOOSE i \in lo..Len(text) :
            /\ StartsWith(text[i].toks, kw)
            /\ \A j \in lo..(i - 1) : ~StartsWith(text[j].toks, kw)
    ELSE 0

\* the text holds, between lines lo and hi, the user material comment of
\* usermat and then its abstract passes, each a head line and the stored body
HoldsAbstractPasses(text, usermat, lo, hi) ==
    \E c \in (lo + 1)..(hi - 1) :
        /\ text[c].cmt = <<"user", "material:", usermat.name>>
        /\ LET blocks == as_abstract_passes(usermat)
               heads == {i \in (c + 1)..(hi - 1) : StartsWith(text[i].toks, "abstract")}
           IN  /\ Cardinality(heads) = Len(usermat.passes)
               /\ \A k \in 1..Len(blocks) :
                     \E h \in heads :
                         /\ h + Len(blocks[k]) - 1 < hi
                         /\ SubSeq(text, h, h + Len(blocks[k]) - 1) = blocks[k]

\* C12 (as claimed): when a material of the description names a parent that
\* the Registry has, generate() returns, and between the line that opens the
\* technique and the first pass line its text holds '// user material:
\* <parent>' and exactly the parent's abstract pass blocks, whether or not
\* the parent references programs
C12_AbstractPassesInTechnique ==
    (pc = "generated" /\ WithParent(bmat) # <<>>) =>
        /\ gen.err \notin {"NameError", "AttributeError"}
        /\ gen.err = NoErr =>
              \A k \in 1..Len(WithParent(bmat)) :
                  HoldsAbstractPasses(gen.text,
                      DictGet(ALL_MATERIALS, WithParent(bmat)[k].ogre_parent_material),
                      FirstLine(gen.text, "technique", 1),
                      FirstLine(gen.text, "pass", FirstLine(gen.text, "technique", 1)))

\* what the code does instead: the comment and the abstract passes of the
\* parents of the sub-materials are written before the material line, and
\* none for the parent of the material itself
C12_AbstractPassesInHeader ==
    (pc = "generated" /\ gen.err = NoErr) =>
        /\ \A i \in 1..Len(gen.text) :
              (StartsWith(gen.text[i].toks, "abstract") \/ StartsWith(gen.text[i].cmt, "user"))
                  => i < FirstLine(gen.text, "material", 1)
        /\ \A k \in 1..Len(bmat.passes) :
              (bmat.passes[k].use_ogre_parent_material
               /\ DictHas(ALL_MATERIALS, bmat.passes[k].ogre_parent_material))
              => HoldsAbstractPasses(gen.text,
                     DictGet(ALL_MATERIALS, bmat.passes[k].ogre_parent_material),
                     1, FirstLine(gen.text, "material", 1))


-----------------------------------------------------------------------------
(* Further properties of SpecScript: what a pass keeps *)

C15_ListedWithoutTextureIsHidden ==
    (pc = "done" /\ omat.err = NoErr) =>
        \A q \in 1..Len(omat.passes) :
            \A k \in 1..Len(omat.passes[q].texture_units) :
                LET u == omat.passes[q].texture_units[k]
                IN  ~DictHas(omat.texo[u].params, "texture")
                        => omat.texo[u].name \notin DictKeys(omat.texture_units)
                           \/ DictGet(omat.texture_units, omat.texo[u].name) # u

\* C16: after a parse, the names of texture_units_order are exactly the keys
\* of the texture_units mapping
C16_OrderIsMappingKeys ==
    (pc = "done" /\ omat.err = NoErr) =>
        {omat.texture_units_order[i] : i \in 1..Len(omat.texture_units_order)}
            = DictKeys(omat.texture_units)

\* what does hold of the order: it lists every key of the mapping
C16_OrderCoversMapping ==
    (pc = "done" /\ omat.err = NoErr) =>
        DictKeys(omat.texture_units)
            \subseteq {omat.texture_units_order[i] : i \in 1..Len(omat.texture_units_order)}

\* the brace depth after the first k lines of a body, on the code of the lines
BodyDepth(body, k) ==
    LET toks(j) == CodeToks(body[j])
    IN  Cardinality({j \in 1..k : toks(j) = <<"{">>})
            - Cardinality({j \in 1..k : toks(j) = <<"}">>})

\* C17: a pass body ends with the closing brace of the pass: once the body
\* has opened, its depth comes back to zero on its last line only, so that
\* no line after the pass's own '}' is part of the body
C17_PassEndsAtItsBrace ==
    (pc = "done" /\ omat.err = NoErr) =>
        \A q \in 1..Len(omat.passes) :
            LET body == omat.passes[q].body
            IN  \A k \in 1..(Len(body) - 1) :
                    (\E j \in 1..k : CodeToks(body[j]) = <<"{">>)
                        => BodyDepth(body, k) > 0

\* C17, its second half: a texture unit of a pass is declared inside the
\* braces of the pass
C17_UnitsInsidePass ==
    (pc = "done" /\ omat.err = NoErr) =>
        \A q \in 1..Len(omat.passes) :
            LET body == omat.passes[q].body
            IN  \A k \in 2..Len(body) :
                    StartsWith(CodeToks(body[k]), "texture_unit")
                        => BodyDepth(body, k - 1) > 0

-----------------------------------------------------------------------------
(* Further properties of SpecDot: separate files *)

FileNames(o) == {o.files[i][1] : i \in 1..Len(o.files)}

\* C19: in separate-files mode a batch with an absent reference raises
\* nothing, and every material of the batch that is present has a file
\* called after it
C19_SeparateToleratesAbsent ==
    (pc = "written" /\ out.separate /\ \E k \in 1..Len(batch) : batch[k] = None) =>
        /\ out.err = NoErr
        /\ \A k \in 1..Len(batch) :
              batch[k] # None => material_name(batch[k].material, "") \in FileNames(out)

\* what the code does instead: the first absent reference raises, and the
\* files written are those of the materials before it
C19_SeparateStopsAtAbsent ==
    (pc = "written" /\ out.separate /\ \E k \in 1..Len(batch) : batch[k] = None) =>
        LET first == CHOOSE k \in 1..Len(batch) :
                        batch[k] = None /\ \A j \in 1..(k - 1) : batch[j] # None
        IN  /\ out.err # NoErr
            /\ Len(out.files) < first
            /\ \A i \in 1..Len(out.files) :
                  out.files[i][1] = material_name(batch[i].material, "")

-----------------------------------------------------------------------------
(* Further properties of SpecCopy: repeated calls *)

\* the history holds a call that copied, and lo is the place of the last one
LastCopy(h) ==
    CHOOSE i \in 0..Len(h) :
        /\ i > 0 => h[i] = "copy"
        /\ \A j \in (i + 1)..Len(h) : h[j] # "copy"

\* C20: for an image that is not packed, a call of copy_texture that comes
\* after a call that copied, with nothing but skipped calls in between,
\* skips and leaves both files as they are; when the source was rewritten in
\* between and now differs from the copy in size or modification time, the
\* call copies again
C20_CopyIdempotent ==
    [][(npieces' = npieces + 1 /\ ~fs.image.packed_file /\ LastCopy(copied) > 0) =>
          LET since == SubSeq(copied, LastCopy(copied) + 1, Len(copied))
          IN  /\ (\A j \in 1..Len(since) : since[j] = "skip")
                    => Last(copied') = "skip" /\ fs' = fs
              /\ ((\A j \in 1..Len(since) : since[j] \in {"skip", "touch"})
                    /\ (fs.src.size # fs.dst.size \/ fs.src.mtime # fs.dst.mtime))
                    => Last(copied') = "copy" /\ fs'.dst = fs.src]_vars

\* a copy, a skip, a rewrite of the source and a second copy
C20_Witness ==
    /\ ~fs.image.packed_file
    /\ copied = <<"copy", "skip", "touch", "copy">>

-----------------------------------------------------------------------------
(* Further properties of SpecFiles: the enumeration list *)

\* C21: after any sequence of file parses ENUM_ITEMS holds at most one entry
\* per material name, and the origin of each entry is the file of the
\* definition that the Registry holds under that name
C21_EnumOnePerName ==
    /\ \A i, j \in 1..Len(ENUM_ITEMS) :
          ENUM_ITEMS[i][1] = ENUM_ITEMS[j][1] => i = j
    /\ \A i \in 1..Len(ENUM_ITEMS) :
          /\ DictHas(ALL_MATERIALS, ENUM_ITEMS[i][1])
          /\ DictGet(ALL_MATERIALS, ENUM_ITEMS[i][1]).url = ENUM_ITEMS[i][3]

\* the halves of C21 one by one: no name is listed twice
C21_NoNameTwice ==
    \A i, j \in 1..Len(ENUM_ITEMS) : ENUM_ITEMS[i][1] = ENUM_ITEMS[j][1] => i = j

\* and no entry names a file other than that of the registered definition
C21_OriginIsCurrent ==
    \A i \in 1..Len(ENUM_ITEMS) :
        /\ DictHas(ALL_MATERIALS, ENUM_ITEMS[i][1])
        /\ DictGet(ALL_MATERIALS, ENUM_ITEMS[i][1]).url = ENUM_ITEMS[i][3]

\* what the list is instead: one entry for every definition constructed
\* with a program reference, in the order of construction, with the file
\* it was constructed from
C21_EnumIsAppendOnly ==
    LET withPrograms == SelectSeq(history, LAMBDA m :
                            m.vertex_programs # <<>> \/ m.fragment_programs # <<>>)
    IN  ENUM_ITEMS = [i \in 1..Len(withPrograms) |->
                        <<withPrograms[i].name, withPrograms[i].name, withPrograms[i].url>>]
=============================================================================
